---- MODULE Spec2Model ----
(***************************************************************************)
(* Model of the magnet-recovery core of media-search (torrent-server):     *)
(*   - extractMagnetFromTorrentBuffer  (providers/utils.js), the bencode   *)
(*     walker that selects the bytes hashed into the info hash;           *)
(*   - followRedirectsToMagnet         (providers/utils.js), the manual    *)
(*     redirect walker;                                                    *)
(*   - resolveDownloadUrlToMagnet of the Jackett and the Prowlarr adapter, *)
(*     the magnet cache and the in-flight map.                             *)
(* Each part has its own specification over the shared variables; a part   *)
(* that a specification does not exercise stays in its initial state.      *)
(***************************************************************************)
EXTENDS Integers, Sequences, FiniteSets, TLC

VARIABLES
    torrent,      \* extractor input: the pieces the buffer was built from
    buf,          \* extractor input: the byte buffer (a sequence of characters)
    ext,          \* extractor output: a record, kind "pending", "null" or "magnet"
    fr,           \* one followRedirectsToMagnet invocation (SpecResolver)
    frSeen,       \* what that invocation was given and answered (history)
    magnetCache,  \* the adapter's LRUCache: downloadUrl -> entry
    inFlight,     \* the Jackett adapter's Map: downloadUrl -> promise (0: none)
    calls,        \* the calls of resolveDownloadUrlToMagnet, by call id
    runs,         \* the resolutions, by the id of the call that started them
    now,          \* the clock, in ms
    settles,      \* history: per downloadUrl, how its resolutions settled
    req,          \* the GET /api/search request and its handler
    up,           \* the provider's search() call made for it
    searchCache,  \* index.js: cache, the entry of the request's key
    elapsed,      \* ms since the request arrived
    norm,         \* normalizeResult: a title and the normTitle made of it
    hook,         \* useTorrentSearch: loading, error, allResults, abortRef
    searches      \* useTorrentSearch: the calls of search(), by call id

extVars == <<torrent, buf, ext>>
frVars == <<fr, frSeen>>
adVars == <<magnetCache, inFlight, calls, runs, now, settles>>
srVars == <<req, up, searchCache, elapsed>>
webVars == <<norm, hook, searches>>

vars == <<torrent, buf, ext, fr, frSeen,
          magnetCache, inFlight, calls, runs, now, settles,
          req, up, searchCache, elapsed,
          norm, hook, searches>>

(***************************************************************************)
(* Bytes.  A buffer decoded as latin1 is one character per byte; a buffer  *)
(* is modelled as a sequence of one-character strings.                     *)
(***************************************************************************)
Digits == {"0", "1", "2", "3", "4", "5", "6", "7", "8", "9"}

\* c >= '0' && c <= '9'
IsDigit(c) == c \in Digits

DigitVal(c) ==
    CASE c = "0" -> 0 [] c = "1" -> 1 [] c = "2" -> 2 [] c = "3" -> 3
      [] c = "4" -> 4 [] c = "5" -> 5 [] c = "6" -> 6 [] c = "7" -> 7
      [] c = "8" -> 8 [] c = "9" -> 9

\* parseInt(numStr) for a non-empty run of decimal digits
RECURSIVE ParseInt(_)
ParseInt(numStr) ==
    IF numStr = <<>> THEN 0
    ELSE 10 * ParseInt(SubSeq(numStr, 1, Len(numStr) - 1))
         + DigitVal(numStr[Len(numStr)])

\* str[i] with a 0-based index; undefined past the end
CharAt(str, i) == IF i >= 0 /\ i < Len(str) THEN str[i + 1] ELSE "undefined"

\* buf.slice(from, to) / str.substring(from, to), 0-based, end exclusive
Slice(str, from, to) == SubSeq(str, from + 1, to)

\* str.indexOf(pat): the 0-based index of the first occurrence, or -1
IndexOf(str, pat) ==
    LET hits == {k \in 0..(Len(str) - Len(pat)) :
                    Slice(str, k, k + Len(pat)) = pat}
    IN  IF hits = {} THEN -1
        ELSE CHOOSE k \in hits : \A h \in hits : k <= h

\* the literal '4:info'
InfoMarker == <<"4", ":", "i", "n", "f", "o">>

\* while (j < str.length && str[j] >= '0' && str[j] <= '9') numStr += str[j++]
RECURSIVE DigitsEnd(_, _)
DigitsEnd(str, j) ==
    IF j < Len(str) /\ IsDigit(CharAt(str, j)) THEN DigitsEnd(str, j + 1) ELSE j

(***************************************************************************)
(* The walk loop of extractMagnetFromTorrentBuffer: one call is the rest   *)
(* of the for loop from index i on; the result is the loop's exit state.   *)
(***************************************************************************)
\* (mutant) the string counter is tested against < 0: one byte too many is skipped
StillInStr_OneMore(strLeft) == ~(strLeft - 1 < 0)

\* if (--strLeft <= 0) inStr = false: inStr after one byte of a string
StillInStr(strLeft) == ~(strLeft - 1 <= 0)

RECURSIVE WalkLoop(_, _, _, _, _)
WalkLoop(str, i, depth, inStr, strLeft) ==
    IF i >= Len(str)
    THEN [i |-> i, depth |-> depth, inStr |-> inStr, strLeft |-> strLeft]
    ELSE IF inStr
    THEN \* if (--strLeft <= 0) inStr = false; continue;
         WalkLoop(str, i + 1, depth, StillInStr(strLeft), strLeft - 1)
    ELSE LET c == CharAt(str, i)
             j == DigitsEnd(str, i)
         IN  IF IsDigit(c) /\ CharAt(str, j) = ":"
             THEN \* strLeft = parseInt(numStr); inStr = true; i = j; continue;
                  WalkLoop(str, j + 1, depth, TRUE, ParseInt(Slice(str, i, j)))
             ELSE IF c = "d" \/ c = "l"
             THEN WalkLoop(str, i + 1, depth + 1, inStr, strLeft)
             ELSE IF c = "e"
             THEN IF depth - 1 = 0
                  THEN [i |-> i + 1, depth |-> 0,                 \* i++; break;
                        inStr |-> inStr, strLeft |-> strLeft]
                  ELSE WalkLoop(str, i + 1, depth - 1, inStr, strLeft)
             ELSE WalkLoop(str, i + 1, depth, inStr, strLeft)

\* extractMagnetFromTorrentBuffer: null, or the magnet built from the digest
\* of buf.slice(infoIdx + 6, i).  SHA-1 is not computed: the magnet record
\* carries the bytes that are hashed and where they lie in the buffer.
extractMagnetFromTorrentBuffer(b) ==
    LET infoIdx == IndexOf(b, InfoMarker)
        w == WalkLoop(b, infoIdx + 6, 0, FALSE, 0)
    IN  IF infoIdx = -1 THEN [kind |-> "null"]
        ELSE IF w.depth # 0 THEN [kind |-> "null"]
        ELSE [kind |-> "magnet", from |-> infoIdx + 6, to |-> w.i,
              hashed |-> Slice(b, infoIdx + 6, w.i)]

(***************************************************************************)
(* extractMagnetFromTorrent of index.js: one call of ApiWalkLoop is the    *)
(* rest of its for loop from index i on; the result is the loop's exit     *)
(* state.                                                                  *)
(***************************************************************************)
RECURSIVE ApiWalkLoop(_, _, _, _, _, _)
ApiWalkLoop(str, i, infoStart, braceCount, inString, stringLength) ==
    IF i >= Len(str)
    THEN [braceCount |-> braceCount, infoEnd |-> infoStart]
    ELSE IF inString
    THEN \* if (stringLength > 0) stringLength--; else inString = false; continue;
         IF stringLength > 0
         THEN ApiWalkLoop(str, i + 1, infoStart, braceCount, TRUE, stringLength - 1)
         ELSE ApiWalkLoop(str, i + 1, infoStart, braceCount, FALSE, stringLength)
    ELSE LET char == CharAt(str, i)
             j == DigitsEnd(str, i)
             count == IF char = "d" THEN braceCount + 1
                      ELSE IF char = "e" THEN braceCount - 1
                      ELSE braceCount
         IN  IF IsDigit(char) /\ j < Len(str) /\ CharAt(str, j) = ":"
             THEN \* stringLength = parseInt(lengthStr); inString = true; i = j;
                  ApiWalkLoop(str, j + 1, infoStart, braceCount, TRUE,
                              ParseInt(Slice(str, i, j)))
             ELSE IF count = 0 /\ i > infoStart
             THEN [braceCount |-> count, infoEnd |-> i + 1]         \* break
             ELSE ApiWalkLoop(str, i + 1, infoStart, count, inString, stringLength)

\* extractMagnetFromTorrent: null, or the magnet built from the digest of
\* torrentBuffer.slice(infoIndex + 6, infoEnd - 1)
extractMagnetFromTorrent(torrentBuffer) ==
    LET infoIndex == IndexOf(torrentBuffer, InfoMarker)
        w == ApiWalkLoop(torrentBuffer, infoIndex + 6, infoIndex + 6, 0, FALSE, 0)
    IN  IF infoIndex = -1 THEN [kind |-> "null"]
        ELSE IF w.braceCount # 0 THEN [kind |-> "null"]
        ELSE [kind |-> "magnet", from |-> infoIndex + 6, to |-> w.infoEnd - 1,
              hashed |-> Slice(torrentBuffer, infoIndex + 6, w.infoEnd - 1)]

(***************************************************************************)
(* Inputs of the extractor: valid bencoded torrent dictionaries            *)
(*     d <pre> 4:info <info> <post> e                                      *)
(* with sorted keys, the info value a dictionary of up to MaxEntries       *)
(* entries whose values are byte strings, integers, lists and dictionaries.*)
(***************************************************************************)
MaxEntries == 2

DigitChar(n) ==
    CASE n = 0 -> "0" [] n = 1 -> "1" [] n = 2 -> "2" [] n = 3 -> "3"
      [] n = 4 -> "4" [] n = 5 -> "5" [] n = 6 -> "6" [] n = 7 -> "7"
      [] n = 8 -> "8" [] n = 9 -> "9"

\* bencoding of a byte string shorter than 100 bytes, of an integer, a list,
\* a dictionary (given as the concatenation of its members' encodings)
BStr(content) ==
    (IF Len(content) < 10 THEN <<DigitChar(Len(content))>>
     ELSE <<DigitChar(Len(content) \div 10), DigitChar(Len(content) % 10)>>)
    \o <<":">> \o content
BInt(digits) == <<"i">> \o digits \o <<"e">>
BList(members) == <<"l">> \o members \o <<"e">>
BDict(members) == <<"d">> \o members \o <<"e">>

StrContents == {<<>>, <<"a">>, <<"e">>, <<"l", "d">>, <<"2", ":">>}

Atoms == {BStr(c) : c \in StrContents} \cup {BInt(<<"5">>), BInt(<<"-", "1">>)}

Values ==
    Atoms
    \cup {BList(<<>>), BDict(<<>>)}
    \cup {BList(a) : a \in Atoms}
    \cup {BDict(BStr(<<"k">>) \o a) : a \in Atoms}

\* the keys of the info dictionary, in sorted order
InfoKeys == <<BStr(<<"l", "e", "n", "g", "t", "h">>),
              BStr(<<"n", "a", "m", "e">>),
              BStr(<<"p", "i", "e", "c", "e", "s">>)>>

RECURSIVE InfoMembers(_, _)
InfoMembers(k, vals) ==
    IF k > Len(vals) THEN <<>>
    ELSE InfoKeys[k] \o vals[k] \o InfoMembers(k + 1, vals)

InfoDicts(valueSet) ==
    {BDict(InfoMembers(1, vals)) :
        vals \in UNION {[1..n -> valueSet] : n \in 0..MaxEntries}}

\* top-level entries before the info key (keys sorting before "info")
PreEntries ==
    { <<>>,
      BStr(<<"a", "n", "n", "o", "u", "n", "c", "e">>) \o BStr(<<"x">>),
      BStr(<<"c", "o", "m", "m", "e", "n", "t">>) \o BStr(InfoMarker),
      BStr(InfoMarker) \o BStr(<<"x">>) }

\* top-level entries after the info key (keys sorting after "info")
PostEntries ==
    { <<>>,
      BStr(<<"n", "o", "d", "e", "s">>) \o BList(BStr(<<"e">>)) }

Torrents(valueSet) ==
    [pre : PreEntries, info : InfoDicts(valueSet), post : PostEntries]

TorrentBytes(t) == <<"d">> \o t.pre \o InfoMarker \o t.info \o t.post \o <<"e">>

\* where the value of the top-level info key lies in TorrentBytes(t)
InfoStart(t) == 1 + Len(t.pre) + Len(InfoMarker)
InfoEnd(t) == InfoStart(t) + Len(t.info)

(***************************************************************************)
(* followRedirectsToMagnet.                                                *)
(* A URL string is modelled by what the code asks of it: whether it starts *)
(* with magnet:, and whether fetch accepts it (an absolute http(s) URL).   *)
(* A string that is neither (a relative path such as /dl/1) makes fetch    *)
(* reject without a request.  null is a value of the same shape.           *)
(***************************************************************************)
Null == [scheme |-> "null", id |-> 0]

HttpUrls == {[scheme |-> "http", id |-> 1], [scheme |-> "http", id |-> 2]}
Magnets == {[scheme |-> "magnet", id |-> 1], [scheme |-> "magnet", id |-> 2]}
OtherUrls == {[scheme |-> "other", id |-> 1]}

\* url.startsWith('magnet:')
IsMagnet(u) == u.scheme = "magnet"

\* fetch(url) issues a request (else it rejects with a TypeError)
Fetchable(u) == u.scheme = "http"

\* { maxHops = 12, ... }
DefaultMaxHops == 12

\* the responses of a server: status, Location header (or null), content type
Responses ==
    [status : {302}, location : HttpUrls \cup Magnets \cup OtherUrls \cup {Null},
     ct : {"html"}]
    \cup [status : {200}, location : {Null}, ct : {"bittorrent", "html"}]
    \cup [status : {404}, location : {Null}, ct : {"html"}]

\* the bodies of a 2xx response, by what the code reads from them:
\*   empty    buf.length = 0
\*   startsD  buf[0] === 0x64
\*   torrent  what extractMagnetFromTorrentBuffer(buf) returns
\*   literal  the first match of MAGNET_RE in the text, &amp; decoded, or null
Bodies ==
    {b \in [empty : BOOLEAN, startsD : BOOLEAN,
            torrent : {Null, [scheme |-> "magnet", id |-> 1]},
            literal : {Null, [scheme |-> "magnet", id |-> 2]}] :
        b.empty => (~b.startsD /\ b.torrent = Null /\ b.literal = Null)}

\* An invocation.  pc: "idle" (not called), "fetch" (awaiting fetch),
\* "body" (awaiting res.arrayBuffer()), "returned", "threw"; timer: the
\* per-hop timer is pending; status, location: res.status and the Location
\* header of the last response (0, null before the first); extracts: the
\* calls of extractMagnetFromTorrentBuffer made; requests: the network
\* requests issued so far.
IdleRun ==
    [pc |-> "idle", url |-> Null, hop |-> 0, maxHops |-> 0, timer |-> FALSE,
     status |-> 0, location |-> Null, ct |-> "none", extracts |-> 0,
     result |-> Null, err |-> "none", requests |-> 0]

\* History of an invocation: start (its startUrl), answered (responses
\* received), onlyRedirects (every fetch call so far was answered by a 3xx
\* with a Location that is no magnet), onlyHttpRedirects (... with a Location
\* that is an http url), chainMagnet (the magnet Location of the last
\* response, when all earlier responses were 3xx to http urls), timedOut
\* (the per-hop timer expired before a fetch had answered), read (a body
\* was read), body (that body).
NothingSeen ==
    [start |-> Null, answered |-> 0, onlyRedirects |-> TRUE,
     onlyHttpRedirects |-> TRUE, chainMagnet |-> Null, timedOut |-> FALSE,
     read |-> FALSE,
     body |-> [empty |-> TRUE, startsD |-> FALSE, torrent |-> Null,
               literal |-> Null]]

SeenResponse(h, resp) ==
    LET redirect == resp.status >= 300 /\ resp.status < 400
    IN  [h EXCEPT
            !.answered = @ + 1,
            !.onlyRedirects =
                @ /\ redirect /\ resp.location # Null /\ ~IsMagnet(resp.location),
            !.onlyHttpRedirects =
                @ /\ redirect /\ resp.location \in HttpUrls,
            !.chainMagnet =
                IF h.onlyHttpRedirects /\ redirect /\ resp.location \in Magnets
                THEN resp.location ELSE Null]

SeenBody(h, body) == [h EXCEPT !.read = TRUE, !.body = body]

SeenRejection(h, kind) ==
    [h EXCEPT !.onlyRedirects = FALSE, !.onlyHttpRedirects = FALSE,
              !.chainMagnet = Null, !.timedOut = (kind = "abort")]

FrIdle == fr = IdleRun /\ frSeen = NothingSeen

Return(r, value) == [r EXCEPT !.pc = "returned", !.result = value]

\* (mutant) the request of the next hop is issued along with that of this hop
LoopHead_Ahead(r) ==
    IF r.hop < r.maxHops
    THEN IF IsMagnet(r.url)
         THEN Return(r, r.url)
         ELSE [r EXCEPT !.pc = "fetch", !.timer = TRUE,
                        !.requests = IF Fetchable(r.url) THEN @ + 2 ELSE @]
    ELSE Return(r, Null)

\* (mutant) the loop runs once more than the budget: hop <= maxHops
LoopHead_OneMore(r) ==
    IF r.hop <= r.maxHops
    THEN IF IsMagnet(r.url)
         THEN Return(r, r.url)
         ELSE [r EXCEPT !.pc = "fetch", !.timer = TRUE,
                        !.requests = IF Fetchable(r.url) THEN @ + 1 ELSE @]
    ELSE Return(r, Null)

\* the for loop from its head: for (...; hop < maxHops; ...) { magnet check;
\* arm the timer; fetch }, and the return null after the loop
LoopHead(r) ==
    IF r.hop < r.maxHops
    THEN IF IsMagnet(r.url)
         THEN Return(r, r.url)
         ELSE [r EXCEPT !.pc = "fetch", !.timer = TRUE,
                        !.requests = IF Fetchable(r.url) THEN @ + 1 ELSE @]
    ELSE Return(r, Null)

\* the call, up to its first await
followRedirectsToMagnet(startUrl, maxHops) ==
    LoopHead([IdleRun EXCEPT !.url = startUrl, !.maxHops = maxHops])

\* (mutant) the try has no finally: the timer stays armed
FetchRejected_NoFinally(r, kind) == [r EXCEPT !.pc = "threw", !.err = kind]

\* (mutant) the rejection is swallowed and the invocation returns null
FetchRejected_ReturnsNull(r, kind) ==
    [r EXCEPT !.pc = "returned", !.result = Null, !.timer = FALSE]

\* fetch rejected: finally { clearTimeout(timer) }, the error propagates.
\* kind "abort": the timer fired and aborted the request; "other": any other
\* failure (network error, a URL fetch cannot parse)
FetchRejected(r, kind) ==
    [r EXCEPT !.pc = "threw", !.err = kind, !.timer = FALSE]

\* (mutant) the Location of a redirect is returned as it is
FetchResolved_ReturnsLocation(r, resp) ==
    IF resp.location # Null THEN Return([r EXCEPT !.timer = FALSE], resp.location)
    ELSE IF resp.status = 200 THEN [r EXCEPT !.timer = FALSE, !.pc = "body", !.ct = resp.ct]
    ELSE Return([r EXCEPT !.timer = FALSE], Null)

\* fetch resolved with a response: finally { clearTimeout(timer) }, then the
\* redirect / 200 / error branches
FetchResolved(r, resp) ==
    LET redirect == resp.status >= 300 /\ resp.status < 400
        ok == resp.status >= 200 /\ resp.status <= 299
        seen == [r EXCEPT !.timer = FALSE, !.status = resp.status,
                          !.location = resp.location]
    IN  IF redirect
        THEN IF resp.location = Null
             THEN Return(seen, Null)                                  \* break
             ELSE LoopHead([seen EXCEPT !.url = resp.location,
                                        !.hop = @ + 1])               \* continue
        ELSE IF ok
        THEN [seen EXCEPT !.pc = "body", !.ct = resp.ct]
        ELSE Return(seen, Null)                                       \* break

\* (mutant) the text of the body is searched before the torrent is parsed
BodyResolved_LiteralFirst(r, body) ==
    IF body.literal # Null THEN Return(r, body.literal)
    ELSE IF ~body.empty /\ body.torrent # Null
    THEN Return([r EXCEPT !.extracts = @ + 1], body.torrent)
    ELSE Return([r EXCEPT !.extracts = IF body.empty THEN @ ELSE @ + 1], Null)

\* res.arrayBuffer() resolved: the three attempts of the 200 branch.  parsed
\* is the invocation after the extractor was called for a body that looks
\* like a torrent, retried after it was called as the last resort.
BodyResolved(r, body) ==
    LET looksLikeTorrent == r.ct = "bittorrent" \/ (~body.empty /\ body.startsD)
        parsed == [r EXCEPT !.extracts = IF looksLikeTorrent THEN @ + 1 ELSE @]
        retried == [parsed EXCEPT !.extracts = @ + 1]
    IN  IF looksLikeTorrent /\ body.torrent # Null
        THEN Return(parsed, body.torrent)
        ELSE IF body.literal # Null
        THEN Return(parsed, body.literal)
        ELSE IF ~looksLikeTorrent /\ ~body.empty
        THEN IF body.torrent # Null
             THEN Return(retried, body.torrent)
             ELSE Return(retried, Null)
        ELSE Return(parsed, Null)

\* res.arrayBuffer() rejected
BodyRejected(r) == [r EXCEPT !.pc = "threw", !.err = "other"]

\* the invocation's promise has settled
Settled(r) == r.pc \in {"returned", "threw"}

ExtIdle ==
    /\ torrent = [pre |-> <<>>, info |-> <<>>, post |-> <<>>]
    /\ buf = <<>>
    /\ ext = [kind |-> "pending"]


(***************************************************************************)
(* resolveDownloadUrlToMagnet of the two adapters: the magnet cache, the   *)
(* in-flight map, the calls and the resolutions they start.                *)
(***************************************************************************)
\* new LRUCache({ max: 1000, ttl: 300_000 }): the time to live, in ms
ttl == 300000

\* the clock advances in steps of TickMs up to MaxNow
TickMs == 200000
MaxNow == 400000

\* the calls made, and the http redirects a server strings together
MaxCalls == 3
MaxRedirects == 1

\* the download URLs the callers ask for
Keys == HttpUrls

CallIds == 1..MaxCalls

\* magnetCache.get on a key that was never set, or whose entry is gone
Undefined == [scheme |-> "undefined", id |-> 0]

NoEntry == [has |-> FALSE, value |-> Null, start |-> 0]

\* an entry is stale once it is older than its ttl
IsStale(e) == now - e.start > ttl

\* magnetCache.get(key): the value of a fresh entry (null included)
CacheGet(cache, u) ==
    IF cache[u].has /\ ~IsStale(cache[u]) THEN cache[u].value ELSE Undefined

\* (mutant) get leaves a stale entry where it is
CacheAfterGet_KeepStale(cache, u) == cache

\* what magnetCache.get(key) leaves behind: a stale entry is deleted
CacheAfterGet(cache, u) ==
    IF cache[u].has /\ IsStale(cache[u]) THEN [cache EXCEPT ![u] = NoEntry]
    ELSE cache

\* magnetCache.set(key, value), value a magnet or null.  With the two keys of
\* the model the cache never holds max = 1000 entries: nothing is evicted.
CacheSet(cache, u, v) ==
    [cache EXCEPT ![u] = [has |-> TRUE, value |-> v, start |-> now]]

\* A call.  st: "new" (not made), "waiting" (awaits the promise of
\* resolution run), "done" (res is what it returned).
\* History: at (when it was made), started (it invoked
\* followRedirectsToMagnet), pending (the resolutions for its url that were
\* unsettled when it was made), fresh (the values with which resolutions for
\* its url had settled, magnet or definitive failure, at most ttl before it),
\* afterAbort (the last resolution for its url had ended by a timeout),
\* left (its client has closed the connection).
NewCall ==
    [st |-> "new", url |-> Null, run |-> 0, res |-> Null, at |-> 0,
     started |-> FALSE, pending |-> {}, fresh |-> {}, afterAbort |-> FALSE,
     left |-> FALSE]

\* A resolution: the followRedirectsToMagnet invocation and the download URL
\* it was started for.  History: timedOut (its per-hop timer expired).
NoRun == [fr |-> IdleRun, url |-> Null, timedOut |-> FALSE]

AdIdle ==
    /\ magnetCache = [u \in Keys |-> NoEntry]
    /\ inFlight = [u \in Keys |-> 0]
    /\ calls = [i \in CallIds |-> NewCall]
    /\ runs = [i \in CallIds |-> NoRun]
    /\ now = 0
    /\ settles = [u \in Keys |-> [last |-> "none", log |-> {}]]

\* the resolutions for url u that have not settled
Unsettled(u) ==
    {j \in CallIds : runs[j].url = u /\ runs[j].fr.pc \in {"fetch", "body"}}

\* the values of the settles of u's resolutions that are at most ttl old
FreshValues(u) == {s.value : s \in {x \in settles[u].log : now - x.at <= ttl}}

\* the history fields of a call made now for u
CallMade(u) ==
    [NewCall EXCEPT !.url = u, !.at = now, !.pending = Unsettled(u),
                    !.fresh = FreshValues(u),
                    !.afterAbort = (settles[u].last = "abort")]

\* calls are made in the order of their ids
MayCall(i) ==
    calls[i].st = "new" /\ (IF i = 1 THEN TRUE ELSE calls[i - 1].st # "new")

\* the call returns the cached value: if (cached !== undefined) return cached
ServedFromCache(i, u, cached) ==
    [calls EXCEPT ![i] = [CallMade(u) EXCEPT !.st = "done", !.res = cached]]

\* the call awaits the promise of resolution j
Awaiting(i, u, j) ==
    [calls EXCEPT ![i] = [CallMade(u) EXCEPT !.st = "waiting", !.run = j,
                                             !.started = (i = j)]]

\* followRedirectsToMagnet(downloadUrl, { timeoutMs }) with the default maxHops
Started(i, u) ==
    [runs EXCEPT ![i] = [NoRun EXCEPT
        !.fr = followRedirectsToMagnet(u, DefaultMaxHops), !.url = u]]

\* what is left of a settled invocation: how it ended, and the requests it
\* had issued (its locals are gone)
Ended(f) ==
    [IdleRun EXCEPT !.pc = f.pc, !.result = f.result, !.err = f.err,
                    !.requests = f.requests]

\* a rejection (what a call would settle with if an error got through)
Thrown == [scheme |-> "error", id |-> 0]

\* (mutant) the error of the resolver is passed on to the callers
Outcome_Rethrows(f) == IF f.pc = "returned" THEN f.result ELSE Thrown

\* the value a settled invocation gives the adapter's callers: the magnet or
\* null returned by .then, the null returned by .catch
Outcome(f) == IF f.pc = "returned" THEN f.result ELSE Null

\* every call awaiting the promise of resolution i resumes with its value
Delivered(i, f) ==
    [c \in CallIds |->
        IF calls[c].st = "waiting" /\ calls[c].run = i
        THEN [calls[c] EXCEPT !.st = "done", !.res = Outcome(f)]
        ELSE calls[c]]

\* the last response of invocation f was a 3xx without a Location header, or
\* had a status outside 200-399
TerminalResponseSeen(f) ==
    \/ f.status \in 300..399 /\ f.location = Null
    \/ f.status # 0 /\ f.status \notin 200..399

\* f returned on such a response
EndedByTerminalResponse(f) == f.pc = "returned" /\ TerminalResponseSeen(f)

\* the history of u's resolutions after one settled: returned values are
\* logged with the time, and the way the last one ended is kept ("abort":
\* by the timer, "error": by another exception, "terminal": by a response
\* that ends the walk, "value": by a redirect to a magnet or by a body)
Logged(u, f, timedOut) ==
    [settles EXCEPT ![u] =
        [last |-> IF timedOut THEN "abort"
                  ELSE IF f.pc = "threw" THEN "error"
                  ELSE IF EndedByTerminalResponse(f) THEN "terminal"
                  ELSE "value",
         log |-> IF f.pc = "returned"
                 THEN @.log \cup {[value |-> f.result, at |-> now]}
                 ELSE @.log]]

\* the responses and bodies of the servers the adapters are run against
AdapterResponses(f) ==
    {resp \in Responses :
        /\ resp.location \notin OtherUrls
        /\ resp.ct = "html"
        /\ resp.location \in HttpUrls =>
              (f.hop < MaxRedirects /\ resp.location # f.url)}

AdapterBodies ==
    {b \in Bodies : ~b.startsD /\ b.torrent = Null /\ b.empty = (b.literal = Null)}

(***************************************************************************)
(* The Jackett adapter (jackett.js, resolveDownloadUrlToMagnet).           *)
(***************************************************************************)
\* (mutant) a call never joins a resolution that is in flight
HasInFlight_Never(u) == FALSE

\* inFlight.has(downloadUrl)
HasInFlight(u) == inFlight[u] # 0

\* (mutant) no error counts as a timeout: every failure is cached
IsTimeout_Never(err) == FALSE

\* a Location that fetch cannot parse and whose text holds the word abort
\* (a relative path such as /abort/1)
AbortNamedUrls == {[scheme |-> "other", id |-> 2]}

\* the TypeError of a fetch that cannot parse its url, by what its message
\* ('Failed to parse URL from ' + url) holds
UrlError(u) == IF u \in AbortNamedUrls THEN "url-abort" ELSE "other"

\* e.message.toLowerCase().includes('abort') || ...includes('timeout'): the
\* error of an aborted fetch ("This operation was aborted"), and any error
\* whose message holds one of the words
IsTimeout(err) == err \in {"abort", "url-abort"}

\* (mutant) only the .then handler removes the entry
InFlightSettled_ThenOnly(u, f) ==
    IF f.pc = "returned" THEN [inFlight EXCEPT ![u] = 0] ELSE inFlight

\* inFlight.delete(downloadUrl) of the .then and of the .catch handler
InFlightSettled(u, f) == [inFlight EXCEPT ![u] = 0]

JCall(i, u) ==
    /\ MayCall(i)
    /\ LET cached == CacheGet(magnetCache, u)
       IN  /\ magnetCache' = CacheAfterGet(magnetCache, u)
           /\ IF cached # Undefined
              THEN /\ calls' = ServedFromCache(i, u, cached)
                   /\ UNCHANGED <<inFlight, runs>>
              ELSE IF HasInFlight(u)
              THEN /\ calls' = Awaiting(i, u, inFlight[u])
                   /\ UNCHANGED <<inFlight, runs>>
              ELSE /\ runs' = Started(i, u)
                   /\ inFlight' = [inFlight EXCEPT ![u] = i]
                   /\ calls' = Awaiting(i, u, i)
    /\ UNCHANGED <<now, settles, extVars, webVars, frVars, srVars>>

\* (mutant) only magnets are cached
JackettCached_MagnetsOnly(cache, u, f) ==
    IF f.pc = "returned" /\ f.result # Null THEN CacheSet(cache, u, f.result)
    ELSE cache

\* the .then / .catch handlers of the promise: what they leave in the cache
JackettCached(cache, u, f) ==
    IF f.pc = "returned" THEN CacheSet(cache, u, f.result)
    ELSE IF ~IsTimeout(f.err) THEN CacheSet(cache, u, Null)
    ELSE cache

\* resolution i goes on to f; when f is settled the handlers of its promise
\* run (cache, inFlight.delete) and the calls awaiting it resume
JAdvance(i, f, timedOut) ==
    /\ runs' = [runs EXCEPT ![i].fr = IF Settled(f) THEN Ended(f) ELSE f,
                            ![i].timedOut = timedOut]
    /\ IF Settled(f)
       THEN /\ magnetCache' = JackettCached(magnetCache, runs[i].url, f)
            /\ inFlight' = InFlightSettled(runs[i].url, f)
            /\ calls' = Delivered(i, f)
            /\ settles' = Logged(runs[i].url, f, timedOut)
       ELSE UNCHANGED <<magnetCache, inFlight, calls, settles>>
    /\ UNCHANGED <<now, extVars, webVars, frVars, srVars>>

JAnswer(i) ==
    /\ runs[i].fr.pc = "fetch"
    /\ \E resp \in AdapterResponses(runs[i].fr) :
          JAdvance(i, FetchResolved(runs[i].fr, resp), FALSE)

\* the per-hop timer expires before the fetch has answered
JTimeout(i) ==
    /\ runs[i].fr.pc = "fetch"
    /\ runs[i].fr.timer
    /\ JAdvance(i, FetchRejected(runs[i].fr, "abort"), TRUE)

JFetchError(i) ==
    /\ runs[i].fr.pc = "fetch"
    /\ JAdvance(i, FetchRejected(runs[i].fr, "other"), FALSE)

JBody(i) ==
    /\ runs[i].fr.pc = "body"
    /\ \E b \in AdapterBodies : JAdvance(i, BodyResolved(runs[i].fr, b), FALSE)

\* the server answers with a redirect to a Location that fetch cannot parse:
\* the loop goes on to the next hop, whose fetch rejects without a request
JBadRedirect(i, loc) ==
    /\ runs[i].fr.pc = "fetch"
    /\ LET resp == [status |-> 302, location |-> loc, ct |-> "html"]
           next == FetchResolved(runs[i].fr, resp)
       IN  JAdvance(i, FetchRejected(next, UrlError(loc)), FALSE)

\* (mutant) the resolution of a caller that leaves is aborted
RunsAfterClose_Cancelled(i) ==
    [runs EXCEPT ![calls[i].run].fr = Ended(FetchRejected(@, "abort"))]

\* the resolutions after the client of call i has closed its connection: the
\* handler of /api/resolve-magnet-provider listens to no close event and
\* hands no signal to the adapter
RunsAfterClose(i) == runs

\* the client of the call that started a resolution goes away while the
\* call awaits it and another call has joined (one client does)
JLeave(i) ==
    /\ calls[i].st = "waiting"
    /\ calls[i].started
    /\ \E j \in CallIds \ {i} : calls[j].st = "waiting" /\ calls[j].run = i
    /\ \A c \in CallIds : ~calls[c].left
    /\ calls' = [calls EXCEPT ![i].left = TRUE]
    /\ runs' = RunsAfterClose(i)
    /\ UNCHANGED <<magnetCache, inFlight, now, settles, extVars, webVars, frVars, srVars>>

(***************************************************************************)
(* The Prowlarr adapter (prowlarr.js, resolveDownloadUrlToMagnet).         *)
(***************************************************************************)
PCall(i, u) ==
    /\ MayCall(i)
    /\ LET cached == CacheGet(magnetCache, u)
       IN  /\ magnetCache' = CacheAfterGet(magnetCache, u)
           /\ IF cached # Undefined
              THEN /\ calls' = ServedFromCache(i, u, cached)
                   /\ UNCHANGED runs
              ELSE /\ runs' = Started(i, u)
                   /\ calls' = Awaiting(i, u, i)
    /\ UNCHANGED <<inFlight, now, settles, extVars, webVars, frVars, srVars>>

\* the code after the await, and the catch block: what they leave in the cache
ProwlarrCached(cache, u, f) ==
    IF f.pc = "returned" THEN CacheSet(cache, u, f.result)
    ELSE CacheSet(cache, u, Null)

\* the invocation of call i goes on to f; when f is settled the call resumes
\* after its await (cache, return)
PAdvance(i, f, timedOut) ==
    /\ runs' = [runs EXCEPT ![i].fr = IF Settled(f) THEN Ended(f) ELSE f,
                            ![i].timedOut = timedOut]
    /\ IF Settled(f)
       THEN /\ magnetCache' = ProwlarrCached(magnetCache, runs[i].url, f)
            /\ calls' = Delivered(i, f)
            /\ settles' = Logged(runs[i].url, f, timedOut)
       ELSE UNCHANGED <<magnetCache, calls, settles>>
    /\ UNCHANGED <<inFlight, now, extVars, webVars, frVars, srVars>>

PAnswer(i) ==
    /\ runs[i].fr.pc = "fetch"
    /\ \E resp \in AdapterResponses(runs[i].fr) :
          PAdvance(i, FetchResolved(runs[i].fr, resp), FALSE)

\* the per-hop timer expires before the fetch has answered
PTimeout(i) ==
    /\ runs[i].fr.pc = "fetch"
    /\ runs[i].fr.timer
    /\ PAdvance(i, FetchRejected(runs[i].fr, "abort"), TRUE)

PFetchError(i) ==
    /\ runs[i].fr.pc = "fetch"
    /\ PAdvance(i, FetchRejected(runs[i].fr, "other"), FALSE)

PBody(i) ==
    /\ runs[i].fr.pc = "body"
    /\ \E b \in AdapterBodies : PAdvance(i, BodyResolved(runs[i].fr, b), FALSE)

\* time passes
Tick ==
    /\ now + TickMs <= MaxNow
    /\ now' = now + TickMs
    /\ UNCHANGED <<magnetCache, inFlight, calls, runs, settles, extVars, webVars, frVars, srVars>>

(***************************************************************************)
(* normalizeResult of the adapters.  A title is a sequence of characters.  *)
(***************************************************************************)
UpperCase == <<"A", "B", "C", "D", "E", "F", "G", "H", "I", "J", "K", "L", "M",
               "N", "O", "P", "Q", "R", "S", "T", "U", "V", "W", "X", "Y", "Z">>
LowerCase == <<"a", "b", "c", "d", "e", "f", "g", "h", "i", "j", "k", "l", "m",
               "n", "o", "p", "q", "r", "s", "t", "u", "v", "w", "x", "y", "z">>

\* .toLowerCase()
ToLowerCase(str) ==
    [k \in 1..Len(str) |->
        IF \E n \in 1..26 : UpperCase[n] = str[k]
        THEN LowerCase[CHOOSE n \in 1..26 : UpperCase[n] = str[k]]
        ELSE str[k]]

\* \s
IsSpace(c) == c \in {" ", "\t", "\n"}

\* .replace(/\s+/g, " "): every run of white space becomes one blank
RECURSIVE CollapseSpaces(_)
CollapseSpaces(str) ==
    IF str = <<>> THEN <<>>
    ELSE IF IsSpace(Head(str))
    THEN IF Len(str) > 1 /\ IsSpace(str[2])
         THEN CollapseSpaces(Tail(str))
         ELSE <<" ">> \o CollapseSpaces(Tail(str))
    ELSE <<Head(str)>> \o CollapseSpaces(Tail(str))

\* the index of the first occurrence of c in str after index k, or 0
NextOf(str, k, c) ==
    LET hits == {n \in (k + 1)..Len(str) : str[n] = c}
    IN  IF hits = {} THEN 0 ELSE CHOOSE n \in hits : \A h \in hits : n <= h

\* .replace(/\[.*?\]|\(.*?\)/g, ""): from the left, every [ up to the next ]
\* and every ( up to the next ) is removed
RECURSIVE StripBracketsFrom(_, _)
StripBracketsFrom(str, k) ==
    IF k > Len(str) THEN <<>>
    ELSE LET close == IF str[k] = "[" THEN NextOf(str, k, "]")
                      ELSE IF str[k] = "(" THEN NextOf(str, k, ")")
                      ELSE 0
         IN  IF close # 0 THEN StripBracketsFrom(str, close + 1)
             ELSE <<str[k]>> \o StripBracketsFrom(str, k + 1)

StripBrackets(str) == StripBracketsFrom(str, 1)

\* .trim()
RECURSIVE TrimStart(_)
TrimStart(str) ==
    IF str # <<>> /\ IsSpace(Head(str)) THEN TrimStart(Tail(str)) ELSE str

RECURSIVE TrimEnd(_)
TrimEnd(str) ==
    IF str # <<>> /\ IsSpace(str[Len(str)])
    THEN TrimEnd(SubSeq(str, 1, Len(str) - 1)) ELSE str

Trim(str) == TrimEnd(TrimStart(str))

\* the normTitle that normalizeResult adds to a result
NormTitle(title) == Trim(StripBrackets(CollapseSpaces(ToLowerCase(title))))

\* the titles of the hits
TitleTagged ==
    <<"S", "h", "o", "w", ".", "S", "0", "1", "E", "0", "1", ".", "1", "0", "8",
      "0", "p", " ", "[", "R", "E", "L", "E", "A", "S", "E", "-", "G", "R", "O",
      "U", "P", "]">>
TitlePlain ==
    <<"s", "h", "o", "w", " ", "s", "0", "1", "e", "0", "1", " ", "1", "0", "8",
      "0", "p">>
TitleLoud ==
    <<"S", "H", "O", "W", " ", " ", "S", "0", "1", "E", "0", "1", "\t", "1", "0",
      "8", "0", "p", " ", "(", "x", ")">>

Titles == {TitleTagged, TitlePlain, TitleLoud}

\* NormTitle, tabulated over the titles of the hits
NormTitles == [t \in Titles |-> NormTitle(t)]

\* { ...result, normTitle }
normalizeResult(result) ==
    [title |-> result.title, size |-> result.size, seeders |-> result.seeders,
     magnet |-> result.magnet, link |-> result.link, pos |-> result.pos,
     normTitle |-> NormTitles[result.title]]

(***************************************************************************)
(* normalizeResult applied to any title.  A title is put together from at  *)
(* most MaxPieces pieces: letters, white space, annotations in brackets    *)
(* and in parentheses, and a closing bracket without an opening one.       *)
(***************************************************************************)
MaxPieces == 5

TitlePieces ==
    {<<"a">>, <<"B">>, <<" ">>, <<"\t">>, <<"[", "x", "]">>, <<"(", "y", ")">>,
     <<"]">>}

RECURSIVE TitlesOf(_)
TitlesOf(n) ==
    IF n = 0 THEN {<<>>}
    ELSE {t \o piece : t \in TitlesOf(n - 1), piece \in TitlePieces}

AnyTitles(n) == UNION {TitlesOf(k) : k \in 0..n}

\* no result is being normalized
NoTitle == [pc |-> "idle", title |-> <<>>, normTitle |-> <<>>, again |-> <<>>]

NormIdle == norm = NoTitle

(***************************************************************************)
(* useTorrentSearch (torrent-web).  The calls of search() are numbered in  *)
(* the order they are made.  A step is one task of the browser's event     *)
(* loop with the microtasks it leaves behind: a call of search() or of     *)
(* abortSearch() that aborts a pending request also runs that request's    *)
(* catch and finally before anything else happens.                         *)
(***************************************************************************)
MaxSearches == 3

SearchIds == 1..MaxSearches

\* abortRef.current = null
NoController == 0

\* error = null
NoError == "null"

\* useState(false), useState(null), useState([]), useRef(null); writer is
\* history: the call of search() that last wrote error or allResults
NoHook ==
    [loading |-> FALSE, error |-> NoError, allResults |-> <<>>,
     abortRef |-> NoController, writer |-> 0]

\* a call of search() that was not made
NoCall == [pc |-> "none", ok |-> FALSE]

\* the results in the answer to call i
ResultsOf(i) == <<i>>

InFlightSearch(i) == searches[i].pc \in {"fetch", "json"}

\* the call of search() made last that got past the test of the query
LatestSearch ==
    LET started == {i \in SearchIds : searches[i].pc \notin {"none", "skipped"}}
    IN  IF started = {} THEN 0 ELSE CHOOSE i \in started : \A k \in started : k <= i

\* finally { setLoading(false); abortRef.current = null; }
SearchFinally(h) == [h EXCEPT !.loading = FALSE, !.abortRef = NoController]

\* catch (e): an AbortError returns, any other error is shown
SearchCatch(h, i, aborted, message) ==
    IF aborted THEN h
    ELSE [h EXCEPT !.allResults = <<>>, !.error = message, !.writer = i]

\* abortRef.current.abort(): the pending fetch or body read of the request
\* rejects with an AbortError
AbortPending(old) ==
    IF old # NoController /\ InFlightSearch(old)
    THEN [searches EXCEPT ![old].pc = "aborted"]
    ELSE searches

\* the catch and finally of the request that an abort() rejected, run as
\* microtasks after the caller's synchronous code
AfterAbort(h, old) ==
    IF old # NoController /\ InFlightSearch(old)
    THEN SearchFinally(SearchCatch(h, old, TRUE, "AbortError"))
    ELSE h

\* search(query, ...): up to the await of fetch
HookSearch(i, blank) ==
    /\ searches[i].pc = "none"
    /\ \A k \in 1..(i - 1) : searches[k].pc # "none"
    /\ IF blank
       THEN /\ searches' = [searches EXCEPT ![i].pc = "skipped"]
            /\ hook' = hook
       ELSE LET old == hook.abortRef
                started == [hook EXCEPT !.abortRef = i, !.error = NoError,
                                        !.writer = i, !.loading = TRUE]
            IN  /\ searches' = [AbortPending(old) EXCEPT ![i].pc = "fetch"]
                /\ hook' = AfterAbort(started, old)
    /\ UNCHANGED <<norm, extVars, frVars, adVars, srVars>>

\* abortSearch()
HookAbortSearch ==
    LET old == hook.abortRef
        stopped == [hook EXCEPT !.abortRef = NoController, !.loading = FALSE]
    IN  /\ searches' = AbortPending(old)
        /\ hook' = AfterAbort(stopped, old)
        /\ UNCHANGED <<norm, extVars, frVars, adVars, srVars>>

\* clearResults()
HookClearResults ==
    /\ hook' = [hook EXCEPT !.allResults = <<>>]
    /\ UNCHANGED <<searches, norm, extVars, frVars, adVars, srVars>>

\* fetch resolved with a response: await response.json()
HookAnswer(i, ok) ==
    /\ searches[i].pc = "fetch"
    /\ searches' = [searches EXCEPT ![i] = [pc |-> "json", ok |-> ok]]
    /\ UNCHANGED <<hook, norm, extVars, frVars, adVars, srVars>>

\* fetch rejected (the server cannot be reached)
HookFetchError(i) ==
    /\ searches[i].pc = "fetch"
    /\ searches' = [searches EXCEPT ![i].pc = "failed"]
    /\ hook' = SearchFinally(SearchCatch(hook, i, FALSE, "Failed to fetch"))
    /\ UNCHANGED <<norm, extVars, frVars, adVars, srVars>>

\* response.json() resolved: !response.ok throws data.error, else
\* setAllResults(data.results || [])
HookBody(i) ==
    /\ searches[i].pc = "json"
    /\ searches' = [searches EXCEPT ![i].pc = IF searches[i].ok THEN "done" ELSE "failed"]
    /\ hook' = IF searches[i].ok
               THEN SearchFinally([hook EXCEPT !.allResults = ResultsOf(i), !.writer = i])
               ELSE SearchFinally(SearchCatch(hook, i, FALSE, "Search failed"))
    /\ UNCHANGED <<norm, extVars, frVars, adVars, srVars>>

\* response.json() rejected (the body is no JSON)
HookBodyError(i) ==
    /\ searches[i].pc = "json"
    /\ searches' = [searches EXCEPT ![i].pc = "failed"]
    /\ hook' = SearchFinally(SearchCatch(hook, i, FALSE, "SyntaxError"))
    /\ UNCHANGED <<norm, extVars, frVars, adVars, srVars>>

HookIdle == hook = NoHook /\ searches = [i \in SearchIds |-> NoCall]

WebIdle == NormIdle /\ HookIdle

(***************************************************************************)
(* search() of the adapters and GET /api/search (index.js).                *)
(***************************************************************************)
\* const SEARCH_TIMEOUT_MS = 28_000
SEARCH_TIMEOUT_MS == 28000

\* setTimeout(() => controller.abort(), 25_000) of the adapters' search()
UpstreamTimeoutMs == 25000

\* the clock of a request advances in steps of SearchTickMs up to MaxElapsed
SearchTickMs == 5000
MaxElapsed == 35000

\* the hits an upstream answer holds
MaxResults == 3

\* seeders: null (asNum of a value that is no finite number; x.seeders ?? null)
NoCount == -1

\* what the upstream says of a hit: title, size, seeders (a cut of the
\* combinations that keeps equal keys with equal, unequal and unknown counts)
HitFields ==
    {h \in [title : Titles, size : {1, 2}, seeders : {NoCount, 0, 5, 50}] :
        /\ h.seeders = 0 => (h.title = TitlePlain /\ h.size = 1)
        /\ h.title = TitleTagged => (h.size = 1 /\ h.seeders \in {5, 50})
        /\ h.title = TitleLoud => (h.size = 1 /\ h.seeders = 50)}

\* the magnet and the download URL the upstream supplies with a hit: both,
\* a download URL only, neither
UpstreamMagnet(title) ==
    IF title = TitleTagged THEN [scheme |-> "magnet", id |-> 1] ELSE Null

UpstreamLink(title) ==
    IF title = TitleTagged THEN [scheme |-> "http", id |-> 1]
    ELSE IF title = TitlePlain THEN [scheme |-> "http", id |-> 2]
    ELSE Null

\* the answers of the upstream of up to n hits; pos, the place of a hit in
\* the answer, tells equal hits apart
AnswersUpTo(n) ==
    UNION { { [k \in 1..m |->
                 [title |-> l[k].title, size |-> l[k].size,
                  seeders |-> l[k].seeders,
                  magnet |-> UpstreamMagnet(l[k].title),
                  link |-> UpstreamLink(l[k].title), pos |-> k]] :
              l \in [1..m -> HitFields] } : m \in 0..n }

\* JackettProvider.search: the result made of a hit.  The download link is
\* kept only when the hit has no magnet.
JackettResult(hit) ==
    normalizeResult([hit EXCEPT
        !.link = IF hit.magnet = Null /\ hit.link # Null THEN hit.link ELSE Null])

\* ProwlarrProvider.search: the result made of a hit.  The download URL is
\* kept as the link.
ProwlarrResult(hit) == normalizeResult(hit)

\* (mutant) search resolves every download URL that came without a magnet
ResolvedDuringSearch_Eager(hits) ==
    {hits[k].link : k \in {n \in 1..Len(hits) :
                              hits[n].magnet = Null /\ hits[n].link # Null}}

\* the download URLs that search() resolves itself: none ("Skip magnet
\* resolution during search")
ResolvedDuringSearch(hits) == {}

\* the results search() resolves with
SearchResults(provider, hits) ==
    [k \in 1..Len(hits) |->
        IF provider = "jackett" THEN JackettResult(hits[k])
        ELSE ProwlarrResult(hits[k])]

\* (r.seeders ?? 0)
SeedersOf(r) == IF r.seeders = NoCount THEN 0 ELSE r.seeders

\* two results have the same key `${r.normTitle}|${r.size}`
SameKey(a, b) == a.normTitle = b.normTitle /\ a.size = b.size

\* (mutant) the first result of a key is kept, whatever its seeders
DedupeMap_KeepFirst(rawResults, n) ==
    LET firsts == {k \in 1..n :
                      \A h \in 1..(k - 1) : ~SameKey(rawResults[h], rawResults[k])}
        Pick[m \in 0..n] ==
            IF m = 0 THEN <<>>
            ELSE IF m \in firsts THEN Append(Pick[m - 1], rawResults[m])
            ELSE Pick[m - 1]
    IN  Pick[n]

\* the values of the Map after the loop has seen rawResults[1..n], in the
\* order of insertion: a new key is appended, a known key is overwritten in
\* place when the new result has more seeders
RECURSIVE DedupeMap(_, _)
DedupeMap(rawResults, n) ==
    IF n = 0 THEN <<>>
    ELSE LET map == DedupeMap(rawResults, n - 1)
             r == rawResults[n]
             at == {k \in 1..Len(map) : SameKey(map[k], r)}
         IN  IF at = {} THEN Append(map, r)
             ELSE LET k == CHOOSE x \in at : TRUE
                  IN  IF SeedersOf(r) > SeedersOf(map[k])
                      THEN [map EXCEPT ![k] = r]
                      ELSE map

\* (mutant) the list is left in the order of the Map
SortBySeeders_Unsorted(list) == list

\* .sort((a, b) => (b.seeders ?? 0) - (a.seeders ?? 0)): a stable sort, each
\* element goes behind the elements that have at least as many seeders
RECURSIVE SortBySeeders(_)
SortBySeeders(list) ==
    IF list = <<>> THEN <<>>
    ELSE LET init == SortBySeeders(SubSeq(list, 1, Len(list) - 1))
             x == list[Len(list)]
             n == Cardinality({k \in 1..Len(init) :
                                  SeedersOf(init[k]) >= SeedersOf(x)})
         IN  SubSeq(init, 1, n) \o <<x>> \o SubSeq(init, n + 1, Len(init))

\* the results of the payload: deduped
Deduped(rawResults) == SortBySeeders(DedupeMap(rawResults, Len(rawResults)))

\* the providers object
ProviderNames == {"prowlarr", "jackett"}

\* (mutant) every failure gets the generic status
StatusOf_Generic(err) == 500

\* e.message.includes('timed out') ? 504 : 500.  err: "deadline" (Search
\* timed out after ...ms), "config" (Missing ... configuration), "http"
\* (Jackett 500), "abort" (This operation was aborted), "network", "parse"
StatusOf(err) == IF err = "deadline" THEN 504 ELSE 500

\* the request: pc "idle" (not arrived), "waiting" (at the await of the
\* race), "responded"; timer: the deadline timer is pending; status, sent,
\* results: the responses sent.  History: raw (the rawResults the payload was
\* made of), fired (the deadline timer has fired).
NoRequest ==
    [pc |-> "idle", timer |-> FALSE, status |-> 0, sent |-> 0,
     results |-> <<>>, raw |-> <<>>, fired |-> FALSE]

\* the search() call: pc "idle", "fetch" (awaiting fetch), "body" (awaiting
\* the body), "resolved", "rejected"; timer: its abort timer is pending;
\* requests: the network requests it has issued; err: what it rejected with
NoSearch ==
    [pc |-> "idle", provider |-> "none", timer |-> FALSE, requests |-> 0,
     results |-> <<>>, err |-> "none"]

NoPayload == [has |-> FALSE, results |-> <<>>]

SrIdle ==
    /\ req = NoRequest
    /\ up = NoSearch
    /\ searchCache = NoPayload
    /\ elapsed = 0

\* res.status(status).json(...)
Respond(r, status, results) ==
    [r EXCEPT !.pc = "responded", !.timer = FALSE, !.status = status,
              !.sent = @ + 1, !.results = results]

\* app.get("/api/search"), up to the await of the race
ApiSearch(q, provider, configured) ==
    /\ req.pc = "idle"
    /\ IF q = "" \/ provider \notin ProviderNames
       THEN /\ req' = Respond(req, 400, <<>>)
            /\ UNCHANGED up
       ELSE IF searchCache.has
       THEN /\ req' = Respond(req, 200, searchCache.results)
            /\ UNCHANGED up
       ELSE IF ~configured
       THEN /\ req' = Respond(req, StatusOf("config"), <<>>)
            /\ up' = [NoSearch EXCEPT !.pc = "rejected", !.provider = provider,
                                      !.err = "config"]
       ELSE /\ req' = [req EXCEPT !.pc = "waiting", !.timer = TRUE]
            /\ up' = [NoSearch EXCEPT !.pc = "fetch", !.provider = provider,
                                      !.timer = TRUE, !.requests = 1]
    /\ UNCHANGED <<searchCache, elapsed, extVars, webVars, frVars, adVars>>

\* search() rejects with err: the race rejects, finally clears the deadline
\* timer and the catch block answers; after the deadline nobody listens
SearchRejected(err) ==
    /\ up' = [up EXCEPT !.pc = "rejected", !.timer = FALSE, !.err = err]
    /\ req' = IF req.pc = "waiting" THEN Respond(req, StatusOf(err), <<>>)
              ELSE req
    /\ UNCHANGED <<searchCache, elapsed, extVars, webVars, frVars, adVars>>

\* the abort timer and the deadline timer are due
AbortDue == up.pc = "fetch" /\ up.timer /\ elapsed >= UpstreamTimeoutMs
DeadlineDue == req.pc = "waiting" /\ req.timer /\ elapsed >= SEARCH_TIMEOUT_MS

\* the upstream answers the search request
UpAnswer(ok) ==
    /\ up.pc = "fetch"
    /\ IF ok
       THEN /\ up' = [up EXCEPT !.pc = "body", !.timer = FALSE]
            /\ UNCHANGED <<req, searchCache, elapsed, extVars, webVars, frVars, adVars>>
       ELSE SearchRejected("http")

\* the abort timer of search() fires
UpAbort ==
    /\ AbortDue
    /\ SearchRejected("abort")

UpFetchError ==
    /\ up.pc = "fetch"
    /\ SearchRejected("network")

\* the body is read and parsed: search() resolves; the handler dedupes,
\* sorts, caches and answers
UpBody(hits) ==
    /\ up.pc = "body"
    /\ LET results == SearchResults(up.provider, hits)
           urls == ResolvedDuringSearch(hits)
       IN  /\ up' = [up EXCEPT !.pc = "resolved", !.results = results,
                               !.requests = @ + Cardinality(urls)]
           /\ magnetCache' =
                  [u \in Keys |->
                      IF u \in urls THEN [has |-> TRUE, value |-> Null, start |-> now]
                      ELSE magnetCache[u]]
           /\ IF req.pc = "waiting"
              THEN /\ req' = [Respond(req, 200, Deduped(results))
                                 EXCEPT !.raw = results]
                   /\ searchCache' = [has |-> TRUE, results |-> Deduped(results)]
              ELSE UNCHANGED <<req, searchCache>>
    /\ UNCHANGED <<inFlight, calls, runs, now, settles, elapsed, extVars, webVars, frVars>>

UpBodyError ==
    /\ up.pc = "body"
    /\ SearchRejected("parse")

\* the deadline timer fires: the race rejects with 'Search timed out after
\* 28000ms' while search() goes on
Deadline ==
    /\ DeadlineDue
    /\ ~AbortDue
    /\ req' = [Respond(req, StatusOf("deadline"), <<>>) EXCEPT !.fired = TRUE]
    /\ UNCHANGED <<up, searchCache, elapsed, extVars, webVars, frVars, adVars>>

\* time passes while the request or its search() is pending; a due timer
\* fires first
SearchTick ==
    /\ req.pc = "waiting" \/ up.pc \in {"fetch", "body"}
    /\ ~AbortDue
    /\ ~DeadlineDue
    /\ elapsed + SearchTickMs <= MaxElapsed
    /\ elapsed' = elapsed + SearchTickMs
    /\ UNCHANGED <<req, up, searchCache, extVars, webVars, frVars, adVars>>

\* the search cache holds a payload for the key from an earlier request, or not
CachedBefore ==
    {NoPayload,
     [has |-> TRUE,
      results |-> Deduped(SearchResults("jackett",
          <<[title |-> TitlePlain, size |-> 1, seeders |-> 5,
             magnet |-> Null, link |-> Null, pos |-> 1]>>))]}

\* the answers of at most one hit
ShortAnswers == AnswersUpTo(1)

SearchInit ==
    /\ req = NoRequest
    /\ up = NoSearch
    /\ searchCache \in CachedBefore
    /\ elapsed = 0
    /\ ExtIdle
    /\ FrIdle
    /\ AdIdle
    /\ WebIdle

SearchNext ==
    \/ \E q \in {"", "show"}, provider \in ProviderNames \cup {"other"},
          configured \in BOOLEAN : ApiSearch(q, provider, configured)
    \/ \E ok \in BOOLEAN : UpAnswer(ok)
    \/ UpAbort
    \/ UpFetchError
    \/ \E hits \in ShortAnswers : UpBody(hits)
    \/ UpBodyError
    \/ Deadline
    \/ SearchTick

SpecSearch == SearchInit /\ [][SearchNext]_vars

(***************************************************************************)
(* Specification of the aggregation: a request waits for the search() of   *)
(* a provider, whose upstream answers with any list of up to MaxResults    *)
(* hits; the results are normalized, deduped, sorted and sent.             *)
(***************************************************************************)
AggInit ==
    /\ req = [NoRequest EXCEPT !.pc = "waiting", !.timer = TRUE]
    /\ \E provider \in ProviderNames :
          up = [NoSearch EXCEPT !.pc = "body", !.provider = provider,
                                !.requests = 1]
    /\ searchCache = NoPayload
    /\ elapsed = 0
    /\ ExtIdle
    /\ FrIdle
    /\ AdIdle
    /\ WebIdle

AggNext ==
    /\ up.pc = "body"
    /\ \E hits \in AnswersUpTo(MaxResults) : UpBody(hits)

SpecAggregate == AggInit /\ [][AggNext]_vars

(***************************************************************************)
(* Specification of the extractor: a buffer is drawn, then the extractor   *)
(* is applied to it.                                                       *)
(***************************************************************************)
ExtInit ==
    /\ torrent \in Torrents(Values)
    /\ buf = TorrentBytes(torrent)
    /\ ext = [kind |-> "pending"]
    /\ FrIdle
    /\ AdIdle
    /\ WebIdle
    /\ SrIdle

Extract ==
    /\ ext = [kind |-> "pending"]
    /\ ext' = extractMagnetFromTorrentBuffer(buf)
    /\ UNCHANGED <<torrent, buf, frVars, adVars, srVars, webVars>>

ExtNext == Extract

SpecExtract == ExtInit /\ [][ExtNext]_vars

\* the extractor hashed exactly the bytes of the value of the top-level info key
HashedInfoValue ==
    /\ ext.kind = "magnet"
    /\ ext.from = InfoStart(torrent)
    /\ ext.to = InfoEnd(torrent)
    /\ ext.hashed = torrent.info

\* the first 4:info of the buffer is the top-level info key
MarkerIsInfoKey(t) == IndexOf(TorrentBytes(t), InfoMarker) + 6 = InfoStart(t)

\* C9: for every valid torrent dictionary whose info value is a dictionary of
\* byte strings, integers, lists and dictionaries, the bytes the extractor
\* hashes are exactly the bytes of the info value: they start at its first
\* byte and end right after the e that closes it.  (Stated for the buffers
\* in which no earlier entry contains 4:info; C10 is about the others.)
C9_InfoSpanCorrect ==
    (ext.kind # "pending" /\ MarkerIsInfoKey(torrent)) => HashedInfoValue

\* the same info dictionary as the only entry of the torrent dictionary
Bare(t) == [pre |-> <<>>, info |-> t.info, post |-> <<>>]

SpanOfBareRight(t) ==
    LET m == extractMagnetFromTorrentBuffer(TorrentBytes(Bare(t)))
    IN  m.kind = "magnet" /\ m.hashed = t.info

\* C10: the selected span is the value of the top-level info key whatever
\* other top-level entries precede or follow it: whenever the extractor
\* selects the info value of a torrent that holds nothing but the info entry,
\* it selects it also with entries before and after it, including entries
\* whose bytes contain 4:info.
C10_SpanIndependentOfOtherKeys ==
    (ext.kind # "pending" /\ SpanOfBareRight(torrent)) => HashedInfoValue

(***************************************************************************)
(* Specification of the walk: the extractor is applied to buffers of three *)
(* shapes.                                                                 *)
(*   "string"     valid torrents whose info dictionary holds a byte string *)
(*                made of grammar bytes; plain is the same buffer with     *)
(*                the string's bytes replaced by a's, strAt the index of   *)
(*                its first content byte, strLen its length;               *)
(*   "truncated"  a valid torrent cut off inside its info dictionary;      *)
(*   "flat"       4:info followed by bytes that open no dictionary or list.*)
(***************************************************************************)
\* string contents made of the bytes of the bencode grammar
GrammarContents ==
    { <<"d">>, <<"l">>, <<"e">>, <<"5">>, <<":">>, <<"e", "e">>, <<"d", "e">>,
      <<"1", ":">>, <<"i", "5", "e">>, <<"l", "d", ":", "9">>,
      <<"d", "e", "l", "e", "1", ":", "e", "e", "3", ":", "d">> }

\* the same number of bytes, none of them a grammar byte
PlainOf(content) == [k \in 1..Len(content) |-> "a"]

\* what surrounds the string inside the info value: as the value of name, as
\* a member of a list, after an integer, before another entry, as a key, in a
\* nested dictionary
StringContexts ==
    LET name == BStr(<<"n", "a", "m", "e">>)
    IN  { [before |-> <<"d">> \o name, after |-> <<"e">>],
          [before |-> <<"d">> \o name \o <<"l">>, after |-> <<"e", "e">>],
          [before |-> <<"d">> \o InfoKeys[1] \o BInt(<<"5">>) \o name,
           after |-> <<"e">>],
          [before |-> <<"d">> \o name,
           after |-> InfoKeys[3] \o BStr(<<"x">>) \o <<"e">>],
          [before |-> <<"d">>, after |-> BStr(<<"x">>) \o <<"e">>],
          [before |-> <<"d">> \o name \o <<"d">> \o BStr(<<"k">>),
           after |-> <<"e", "e">>] }

\* the prefixes that hold no 4:info
PlainPreEntries == {e \in PreEntries : IndexOf(e, InfoMarker) = -1}

WalkInput(shape, bytes, plain, strAt, strLen) ==
    [shape |-> shape, bytes |-> bytes, plain |-> plain,
     strAt |-> strAt, strLen |-> strLen]

StringInputs ==
    { LET head == <<"d">> \o pre \o InfoMarker \o ctx.before
          tail == ctx.after \o post \o <<"e">>
      IN  WalkInput("string",
                    head \o BStr(c) \o tail,
                    head \o BStr(PlainOf(c)) \o tail,
                    Len(head) + Len(BStr(c)) - Len(c),
                    Len(c)) :
        pre \in PlainPreEntries, ctx \in StringContexts,
        c \in GrammarContents, post \in PostEntries }

\* the values of the info dictionaries that are cut off
CutValues ==
    { BStr(<<"a">>), BStr(<<>>), BInt(<<"5">>), BList(BStr(<<"e">>)),
      BDict(BStr(<<"k">>) \o BStr(<<"a">>)) }

\* a valid torrent cut off after at least the first byte of its info value
\* and before the e that closes the info dictionary
TruncatedInputs ==
    UNION { { WalkInput("truncated", SubSeq(TorrentBytes(t), 1, k), <<>>, 0, 0) :
                k \in (InfoStart(t) + 1)..(InfoEnd(t) - 1) } :
            t \in {x \in Torrents(CutValues) : x.pre = <<>> /\ x.post = <<>>} }

\* bytes after the marker in which the walk meets no d and no l outside a
\* string: nothing, strings, text, an integer, a stray e
FlatTails ==
    { <<>>, BStr(<<"a", "b", "c">>), BStr(<<"d">>) \o BStr(<<"l", "e">>),
      <<"h", "i">>, BInt(<<"5">>), <<"e">>, <<"x", "e">>,
      BStr(<<"a">>) \o <<"e">> }

FlatInputs ==
    { WalkInput("flat", head \o InfoMarker \o tail, <<>>, 0, 0) :
        head \in {<<>>, <<"d">>, <<"x">>}, tail \in FlatTails }

WalkInputs == StringInputs \cup TruncatedInputs \cup FlatInputs

WalkInit ==
    /\ torrent \in WalkInputs
    /\ buf = torrent.bytes
    /\ ext = [kind |-> "pending"]
    /\ FrIdle
    /\ AdIdle
    /\ WebIdle
    /\ SrIdle

SpecWalk == WalkInit /\ [][ExtNext]_vars

(***************************************************************************)
(* Specification of the resolver: one invocation with any start URL and a  *)
(* hop budget of 1..MaxHopsArg or the default, against a server that may   *)
(* answer every request with any response, or not in time, or not at all.  *)
(***************************************************************************)
MaxHopsArg == 3

HopArgs == (1..MaxHopsArg) \cup {DefaultMaxHops}

StartUrls == HttpUrls \cup Magnets \cup OtherUrls

FRInit ==
    /\ FrIdle
    /\ ExtIdle
    /\ AdIdle
    /\ WebIdle
    /\ SrIdle

FRStart ==
    /\ fr.pc = "idle"
    /\ \E u \in StartUrls, m \in HopArgs :
          /\ fr' = followRedirectsToMagnet(u, m)
          /\ frSeen' = [frSeen EXCEPT !.start = u]
    /\ UNCHANGED <<extVars, webVars, adVars, srVars>>

FRAnswer ==
    /\ fr.pc = "fetch"
    /\ Fetchable(fr.url)
    /\ \E resp \in Responses :
          /\ fr' = FetchResolved(fr, resp)
          /\ frSeen' = SeenResponse(frSeen, resp)
    /\ UNCHANGED <<extVars, webVars, adVars, srVars>>

\* the per-hop timer expires before the fetch has answered
FRTimeout ==
    /\ fr.pc = "fetch"
    /\ Fetchable(fr.url)
    /\ fr.timer
    /\ fr' = FetchRejected(fr, "abort")
    /\ frSeen' = SeenRejection(frSeen, "abort")
    /\ UNCHANGED <<extVars, webVars, adVars, srVars>>

FRFetchError ==
    /\ fr.pc = "fetch"
    /\ fr' = FetchRejected(fr, "other")
    /\ frSeen' = SeenRejection(frSeen, "other")
    /\ UNCHANGED <<extVars, webVars, adVars, srVars>>

FRBody ==
    /\ fr.pc = "body"
    /\ \E b \in Bodies :
          /\ fr' = BodyResolved(fr, b)
          /\ frSeen' = SeenBody(frSeen, b)
    /\ UNCHANGED <<extVars, webVars, adVars, srVars>>

FRBodyError ==
    /\ fr.pc = "body"
    /\ fr' = BodyRejected(fr)
    /\ UNCHANGED <<extVars, webVars, adVars, srVars, frSeen>>

FRNext ==
    \/ FRStart
    \/ FRAnswer
    \/ FRTimeout
    \/ FRFetchError
    \/ FRBody
    \/ FRBodyError

SpecResolver == FRInit /\ [][FRNext]_vars

\* fetch(url) rejects at once when it cannot parse url
FRInvalidUrl == ~Fetchable(fr.url) /\ FRFetchError

\* The resolver under the scheduling of Node: the call is made, a pending
\* timer fires unless its request answers first, and a fetch that issues no
\* request rejects.  The server owes nothing: it may never answer a request
\* and never finish a body.
SpecResolverLive ==
    /\ SpecResolver
    /\ WF_vars(FRStart)
    /\ WF_vars(FRTimeout)
    /\ WF_vars(FRInvalidUrl)

(***************************************************************************)
(* Specification of the server: a search request and a resolution run in   *)
(* the one process, their steps interleaved by the event loop.             *)
(***************************************************************************)
SpecServer == SearchInit /\ [][SearchNext \/ FRNext]_vars

(***************************************************************************)
(* Specifications of the adapters: up to MaxCalls calls for the download   *)
(* URLs, made at any time, against servers that answer, fail or stall.     *)
(***************************************************************************)
AdInit == AdIdle /\ FrIdle /\ ExtIdle /\ SrIdle /\ WebIdle

JNext ==
    \/ \E i \in CallIds, u \in Keys : JCall(i, u)
    \/ \E i \in CallIds : JAnswer(i)
    \/ \E i \in CallIds : JTimeout(i)
    \/ \E i \in CallIds : JFetchError(i)
    \/ \E i \in CallIds : JBody(i)
    \/ Tick

SpecJackett == AdInit /\ [][JNext]_vars

\* the Jackett adapter against servers that also redirect to what is no URL
SpecJackettUrls ==
    AdInit /\ [][JNext \/ \E i \in CallIds, loc \in OtherUrls \cup AbortNamedUrls :
                              JBadRedirect(i, loc)]_vars

\* the Jackett adapter with callers whose clients go away
SpecDepart == AdInit /\ [][JNext \/ \E i \in CallIds : JLeave(i)]_vars

PNext ==
    \/ \E i \in CallIds, u \in Keys : PCall(i, u)
    \/ \E i \in CallIds : PAnswer(i)
    \/ \E i \in CallIds : PTimeout(i)
    \/ \E i \in CallIds : PFetchError(i)
    \/ \E i \in CallIds : PBody(i)
    \/ Tick

SpecProwlarr == AdInit /\ [][PNext]_vars


\* C6: when the requests 1..k-1 were answered by a 3xx whose Location is an
\* http url and request k by a 3xx whose Location is a magnet URI, for any
\* k in 1..maxHops, the invocation has issued exactly k requests and has
\* returned that magnet.
C6_RedirectChainToMagnet ==
    frSeen.chainMagnet # Null =>
        /\ fr.pc = "returned"
        /\ fr.result = frSeen.chainMagnet
        /\ fr.requests = frSeen.answered

Made == {c \in CallIds : calls[c].st # "new"}

\* the calls that were not served from the cache
Missed == {c \in Made : calls[c].run # 0}

\* C1 (Jackett): of the callers that ask for the same url while the cache has
\* no entry for it and before the first resolution has settled, only the
\* first invokes followRedirectsToMagnet: the others await that same
\* resolution, at no time are two resolutions of one url unsettled, and all
\* of them receive the same outcome at the same time.
C1_JackettCoalesces ==
    /\ \A u \in Keys : Cardinality(Unsettled(u)) <= 1
    /\ \A i \in Missed, j \in Missed :
          (calls[i].started /\ i \in calls[j].pending) =>
              /\ calls[j].run = i
              /\ calls[j].st = calls[i].st
              /\ calls[j].res = calls[i].res

\* three callers of one url were served by one invocation, with its magnet
C1_Witness ==
    /\ \A c \in 1..3 : calls[c].st = "done" /\ calls[c].run = 1
    /\ calls[1].res \in Magnets
    /\ runs[2].fr.pc = "idle"
    /\ runs[3].fr.pc = "idle"

\* C2 (Prowlarr): a caller that asks for a url while the cache has no entry
\* for it and a resolution of that url is unsettled does not invoke
\* followRedirectsToMagnet again, and receives the outcome of that resolution.
C2_ProwlarrCoalesces ==
    \A j \in Missed :
        calls[j].pending # {} =>
            /\ ~calls[j].started
            /\ \A i \in calls[j].pending :
                  (calls[i].st = "done" /\ calls[j].st = "done") =>
                      calls[j].res = calls[i].res

\* a resolution that ended by a timeout gives its callers null
TimedOutGivesNull ==
    \A c \in Missed :
        (calls[c].st = "done" /\ runs[calls[c].run].timedOut) =>
            calls[c].res = Null

\* after a resolution of u ended by a timeout the cache has no entry for u
TimeoutLeavesNoEntry ==
    \A u \in Keys : settles[u].last = "abort" => ~magnetCache[u].has

\* a call made after a resolution of its url ended by a timeout is not served
\* from the cache: it starts a resolution (or awaits the one started since),
\* which has issued a network request
CallAfterTimeoutResolves ==
    \A c \in Made :
        calls[c].afterAbort =>
            /\ calls[c].run # 0
            /\ runs[calls[c].run].fr.requests >= 1
            /\ (calls[c].pending = {} => calls[c].started)

\* C3 (Jackett): when a resolution ends because the per-hop timer aborted the
\* fetch, its callers get null, no cache entry is written for the url and the
\* in-flight entry is removed, so that the next call for the url, whenever it
\* is made, starts a fresh invocation that issues a network request.
C3_JackettTimeoutNotCached ==
    /\ TimedOutGivesNull
    /\ TimeoutLeavesNoEntry
    /\ \A u \in Keys : (settles[u].last = "abort" /\ Unsettled(u) = {}) => ~HasInFlight(u)
    /\ CallAfterTimeoutResolves

\* a call timed out, a later call for the same url resolved it afresh
C3_Witness ==
    /\ calls[1].st = "done" /\ runs[1].timedOut /\ calls[1].res = Null
    /\ calls[2].st = "done" /\ calls[2].afterAbort /\ calls[2].started
    /\ calls[2].url = calls[1].url
    /\ calls[2].at > calls[1].at
    /\ calls[2].res \in Magnets

\* C4 (Prowlarr): when a resolution ends because the per-hop timer aborted
\* the fetch, its caller gets null and no cache entry is written for the url,
\* so that the next call for the url makes a fresh network attempt.
C4_ProwlarrTimeoutNotCached ==
    /\ TimedOutGivesNull
    /\ CallAfterTimeoutResolves
    /\ TimeoutLeavesNoEntry

\* C5 (either adapter, here the Prowlarr adapter): once a resolution of
\* a url has settled with a magnet or with a definitive failure, every call
\* for that url made within the ttl returns that value from the cache: it
\* makes no network request and starts or joins no resolution.
C5_SettledValueServedWithinTtl ==
    \A c \in Made :
        \A v \in calls[c].fresh :
            /\ calls[c].st = "done"
            /\ calls[c].run = 0
            /\ ~calls[c].started
            /\ calls[c].res = v

\* the state in which the walk of the first n bytes of buf ends
WalkOfPrefix(n) ==
    WalkLoop(Slice(buf, 0, n), IndexOf(buf, InfoMarker) + 6, 0, FALSE, 0)

\* the walk reads the length of the string of the buffer as a string length
StringEntered ==
    LET w == WalkOfPrefix(torrent.strAt)
    IN  w.i = torrent.strAt /\ w.inStr /\ w.strLeft = torrent.strLen

\* C11: when the info dictionary holds a byte string of length N >= 1 whose
\* bytes are d, l, e, digits or colons, the walk skips exactly the N bytes
\* after the colon (it is inside the string up to the last of them and
\* outside right after it) at the nesting depth it had at the colon, and
\* the extractor ends the span where it ends it when the N bytes are a's.
C11_StringBytesSkipped ==
    (torrent.shape = "string" /\ ext.kind # "pending") =>
        LET n == torrent.strLen
            atColon == WalkOfPrefix(torrent.strAt)
            lastByte == WalkOfPrefix(torrent.strAt + n - 1)
            after == WalkOfPrefix(torrent.strAt + n)
            plain == extractMagnetFromTorrentBuffer(torrent.plain)
        IN  /\ StringEntered =>
                  /\ n = 1 \/ (lastByte.inStr /\ lastByte.strLeft = 1)
                  /\ after.i = torrent.strAt + n
                  /\ ~after.inStr
                  /\ after.depth = atColon.depth
            /\ ext.kind = plain.kind
            /\ ext.kind = "magnet" => (ext.from = plain.from /\ ext.to = plain.to)

\* a string of eleven grammar bytes inside a nested dictionary was skipped and
\* the info dictionary was hashed whole
C11_Witness ==
    /\ torrent.shape = "string"
    /\ torrent.strLen = 11
    /\ StringEntered
    /\ WalkOfPrefix(torrent.strAt).depth = 2
    /\ ext.kind = "magnet"
    /\ CharAt(buf, ext.to - 1) = "e"
    /\ ext.to > torrent.strAt + torrent.strLen

\* C12: for a buffer cut off inside the info dictionary, before the e that
\* closes it, the extractor returns null.
C12_TruncatedGivesNull ==
    (torrent.shape = "truncated" /\ ext.kind # "pending") => ext.kind = "null"

\* C13: when the bytes after the 4:info marker open no dictionary and no
\* list, the extractor returns null: a magnet needs a container that was
\* opened and closed.
C13_NoContainerGivesNull ==
    (torrent.shape = "flat" /\ ext.kind # "pending") => ext.kind = "null"

\* the request was answered with a payload made of rawResults
Aggregated == req.pc = "responded" /\ req.status = 200 /\ up.pc = "resolved"

\* C14: the results of the payload hold exactly one entry for every pair
\* (normTitle, size) of the provider's results; the entry is one of the
\* provider's results of that pair, one with the most seeders (unknown
\* counted as 0), and the first of those in the provider's order.
C14_OnePerKeyMostSeeders ==
    Aggregated =>
        LET raw == req.raw
            out == req.results
        IN  /\ \A i \in 1..Len(raw) :
                  Cardinality({k \in 1..Len(out) : SameKey(out[k], raw[i])}) = 1
            /\ \A k \in 1..Len(out) :
                  /\ out[k].pos \in 1..Len(raw)
                  /\ out[k] = raw[out[k].pos]
                  /\ \A i \in 1..Len(raw) :
                        SameKey(raw[i], out[k]) =>
                            /\ SeedersOf(raw[i]) <= SeedersOf(out[k])
                            /\ SeedersOf(raw[i]) = SeedersOf(out[k]) =>
                                  out[k].pos <= i

\* hits of one key with seeders 5, 50 and 50 gave one entry, the second hit
C14_Witness ==
    /\ Aggregated
    /\ Len(req.raw) = 3
    /\ \A i \in 1..3 : SameKey(req.raw[i], req.raw[1])
    /\ req.raw[1].seeders = 5
    /\ req.raw[2].seeders = 50
    /\ req.raw[3].seeders = 50
    /\ Len(req.results) = 1
    /\ req.results[1].pos = 2

\* C15: the results of the payload are in the order of non-increasing
\* seeders (unknown counted as 0).
C15_SortedBySeeders ==
    Aggregated =>
        \A k \in 1..(Len(req.results) - 1) :
            SeedersOf(req.results[k]) >= SeedersOf(req.results[k + 1])

\* three hits that came in the order of increasing seeders were sent reversed
C15_Witness ==
    /\ Aggregated
    /\ Len(req.raw) = 3
    /\ Len(req.results) = 3
    /\ SeedersOf(req.raw[1]) < SeedersOf(req.raw[2])
    /\ SeedersOf(req.raw[2]) < SeedersOf(req.raw[3])
    /\ \A k \in 1..3 : req.results[k].pos = 4 - k

\* C16: a hit titled "Show.S01E01.1080p [RELEASE-GROUP]" and a hit titled
\* "show s01e01 1080p" get the same normTitle, so that with equal sizes they
\* fall into one group and the payload holds one entry for the two.
C16_ReleaseVariantsEquated ==
    Aggregated =>
        \A i, j \in 1..Len(req.raw) :
            (/\ req.raw[i].title = TitleTagged
             /\ req.raw[j].title = TitlePlain
             /\ req.raw[i].size = req.raw[j].size) =>
                /\ req.raw[i].normTitle = req.raw[j].normTitle
                /\ Cardinality({k \in 1..Len(req.results) :
                       req.results[k].pos \in {i, j}}) = 1

\* C17: once the deadline timer has fired while search() was pending, the
\* request has got exactly one response, with status 504, and the search
\* cache holds nothing for its key, whatever search() does afterwards.
C17_DeadlineGives504 ==
    req.fired =>
        /\ req.pc = "responded"
        /\ req.status = 504
        /\ req.sent = 1
        /\ ~searchCache.has

\* the deadline fired and search() resolved with a result afterwards
C17_Witness ==
    /\ req.fired
    /\ req.status = 504
    /\ up.pc = "resolved"
    /\ Len(up.results) = 1
    /\ elapsed >= SEARCH_TIMEOUT_MS

\* C18: every call of resolveDownloadUrlToMagnet whose resolution has settled
\* has settled itself, with a magnet or with null, whether the resolver
\* returned or threw and whether the call started the resolution or joined it.
C18_CallsNeverReject ==
    \A c \in Made :
        /\ calls[c].st = "done" => calls[c].res \in Magnets \cup {Null}
        /\ calls[c].st = "waiting" =>
              runs[calls[c].run].fr.pc \in {"fetch", "body"}

\* a resolution threw an error that is no timeout; the call that started it
\* and a call that joined it both got null; another resolution timed out
C18_Witness ==
    /\ calls[1].started /\ calls[2].run = 1 /\ ~calls[2].started
    /\ runs[1].fr.pc = "threw" /\ runs[1].fr.err = "other"
    /\ calls[1].st = "done" /\ calls[1].res = Null
    /\ calls[2].st = "done" /\ calls[2].res = Null
    /\ calls[3].st = "done" /\ calls[3].started /\ runs[3].timedOut
    /\ calls[3].res = Null

\* C19: search() leaves the magnet cache, the in-flight map and the
\* resolutions alone, it issues one network request, and a result whose hit
\* came without a magnet is returned without a magnet, with its download URL.
C19_SearchResolvesNothing ==
    /\ [][UNCHANGED <<magnetCache, inFlight, calls, runs>>]_vars
    /\ [](up.requests <= 1)
    /\ [](up.pc = "resolved" =>
            \A k \in 1..Len(up.results) :
                UpstreamMagnet(up.results[k].title) = Null =>
                    /\ up.results[k].magnet = Null
                    /\ up.results[k].link = UpstreamLink(up.results[k].title))

\* search() resolved with a result that has a download URL and no magnet
C19_Witness ==
    /\ up.pc = "resolved"
    /\ up.requests = 1
    /\ Len(up.results) = 1
    /\ up.results[1].magnet = Null
    /\ up.results[1].link \in HttpUrls

\* C20 (Jackett): at no time are two resolutions of one url unsettled, the
\* unsettled one is the one the in-flight map holds, and a resolution is
\* started only for a url that has no in-flight entry.
C20_OneResolutionPerUrl ==
    /\ [](\A u \in Keys :
            /\ Cardinality(Unsettled(u)) <= 1
            /\ Unsettled(u) # {} => Unsettled(u) = {inFlight[u]})
    /\ [][\A c \in CallIds :
            (runs[c].fr.pc = "idle" /\ runs'[c].fr.pc # "idle") =>
                inFlight[runs'[c].url] = 0]_vars

\* after a timeout, a negative result and the expiry of its cache entry a
\* third resolution of the url is running alone
C20_Witness ==
    \E u \in Keys :
        /\ \A c \in CallIds : calls[c].url = u /\ calls[c].started
        /\ runs[1].timedOut
        /\ calls[2].res = Null /\ calls[2].st = "done" /\ ~runs[2].timedOut
        /\ Unsettled(u) = {3}
        /\ now > ttl

\* C21 (Jackett): the in-flight map holds an entry only for a resolution that
\* is running: it is empty for a url none of whose resolutions is unsettled,
\* however the last one settled, and a call that has received the outcome of
\* a resolution finds no entry of that resolution.
C21_InFlightRemovedOnSettle ==
    /\ \A u \in Keys : HasInFlight(u) => inFlight[u] \in Unsettled(u)
    /\ \A u \in Keys : Unsettled(u) = {} => inFlight[u] = 0
    /\ \A c \in Missed :
          calls[c].st = "done" => inFlight[calls[c].url] # calls[c].run

\* resolutions have ended by a timeout, by another error and by returning
\* null; every call has its outcome and the map is empty
C21_Witness ==
    /\ runs[1].timedOut /\ runs[1].fr.pc = "threw"
    /\ runs[2].fr.pc = "threw" /\ runs[2].fr.err = "other"
    /\ runs[3].fr.pc = "returned" /\ runs[3].fr.result = Null
    /\ \A c \in CallIds : calls[c].st = "done"
    /\ \A u \in Keys : inFlight[u] = 0

\* C22: every invocation of followRedirectsToMagnet that awaits a fetch or a
\* body eventually settles, whatever the server does or fails to do.
C22_EveryResolutionSettles == (fr.pc \in {"fetch", "body"}) ~> Settled(fr)

\* the part of C22 that the timer does cover: an invocation that awaits a
\* fetch eventually gets past that await
FetchAlwaysEnds ==
    \A h \in 0..DefaultMaxHops :
        (fr.pc = "fetch" /\ fr.hop = h) ~> ~(fr.pc = "fetch" /\ fr.hop = h)

\* an invocation started on a magnet has returned that magnet without a request
MagnetStartReturned ==
    (fr.pc # "idle" /\ frSeen.start \in Magnets) =>
        /\ fr.pc = "returned"
        /\ fr.result = frSeen.start
        /\ fr.requests = 0

\* no request is ever issued for a magnet
MagnetNeverFetched == fr.pc = "fetch" => ~IsMagnet(fr.url)

\* C23: for every maxHops >= 1 an invocation started on a magnet returns that
\* magnet and issues no request, and a magnet received as the Location of a
\* hop is returned, after the requests answered so far and without a request
\* for the magnet.
C23_MagnetReturnedUnfetched ==
    /\ MagnetStartReturned
    /\ MagnetNeverFetched
    /\ frSeen.chainMagnet # Null =>
          /\ fr.pc = "returned"
          /\ fr.result = frSeen.chainMagnet
          /\ fr.requests = frSeen.answered

\* an invocation that got a terminal response has returned null, having
\* issued as many requests as it got responses
TerminalEndsWalk ==
    TerminalResponseSeen(fr) =>
        /\ fr.pc = "returned"
        /\ fr.result = Null
        /\ fr.requests = frSeen.answered

\* C24 (Jackett): when a resolution gets a 3xx without Location, or a status
\* outside 200-399, in answer to a request, followRedirectsToMagnet returns
\* null in that step without another request, the adapter stores null for
\* the url in the cache and its callers get null; a settled invocation
\* issues no request later.
C24_TerminalResponseStoresNull ==
    /\ [][\A i \in CallIds :
            (/\ runs[i].fr.pc = "fetch"
             /\ Settled(runs'[i].fr)
             /\ settles'[runs[i].url].last = "terminal") =>
                /\ runs'[i].fr.pc = "returned"
                /\ runs'[i].fr.result = Null
                /\ runs'[i].fr.requests = runs[i].fr.requests
                /\ runs[i].fr.requests = runs[i].fr.hop + 1
                /\ magnetCache'[runs[i].url] =
                       [has |-> TRUE, value |-> Null, start |-> now]
                /\ calls'[i].st = "done"
                /\ calls'[i].res = Null]_vars
    /\ [][\A i \in CallIds : Settled(runs[i].fr) => runs'[i] = runs[i]]_vars

\* a resolution ended on a terminal first response, another on a terminal
\* second response; null is cached for both urls
C24_Witness ==
    /\ \A u \in Keys :
          /\ settles[u].last = "terminal"
          /\ magnetCache[u] = [has |-> TRUE, value |-> Null, start |-> now]
    /\ runs[1].fr.requests = 1
    /\ runs[2].fr.requests = 2
    /\ calls[1].res = Null
    /\ calls[2].res = Null

\* C25: after the body of a 2xx response was read, the invocation has
\* returned without a further request: the extractor's magnet when the
\* content type or a first byte d indicates a torrent and the extraction
\* succeeds, whatever the text holds; otherwise the first magnet literal of
\* the text; otherwise the extractor's magnet when nothing indicated a
\* torrent, the body is not empty and the extraction succeeds; otherwise
\* null.  The extractor was called at most once.
C25_BodyPriority ==
    frSeen.read =>
        LET b == frSeen.body
            indicated == fr.ct = "bittorrent" \/ b.startsD
            expected ==
                IF indicated /\ b.torrent # Null THEN b.torrent
                ELSE IF b.literal # Null THEN b.literal
                ELSE IF ~indicated /\ ~b.empty /\ b.torrent # Null
                THEN b.torrent
                ELSE Null
        IN  /\ fr.pc = "returned"
            /\ fr.result = expected
            /\ fr.extracts <= 1
            /\ fr.requests = frSeen.answered
            /\ fr.status = 200

\* a body that starts with d and holds a magnet literal as well gave the
\* extractor's magnet, on the second hop
C25_Witness ==
    /\ frSeen.read
    /\ frSeen.body.startsD
    /\ frSeen.body.torrent # Null
    /\ frSeen.body.literal # Null
    /\ fr.ct = "html"
    /\ fr.result = frSeen.body.torrent
    /\ fr.extracts = 1
    /\ fr.requests = 2

\* the info dictionaries whose values are integers and one-byte strings
IntegerInfos == InfoDicts({BStr(<<"a">>), BInt(<<"5">>), BInt(<<"-", "1">>)})

\* C26: for a torrent whose info dictionary holds integers (also negative)
\* and plain strings, such as d6:lengthi5e4:name1:ae, the walk ends at the
\* e that closes the info dictionary: the span is the whole dictionary.
C26_IntegersKeepDepth ==
    (/\ ext.kind # "pending"
     /\ MarkerIsInfoKey(torrent)
     /\ torrent.info \in IntegerInfos) => HashedInfoValue

\* C27: at any time at most one request of the invocation is without a
\* response, and only while the invocation awaits it (or after it failed);
\* a request is issued one at a time, and request n+1 only in the step in
\* which the response of request n was received and classified as a redirect.
C27_HopsSequential ==
    /\ [](fr.requests - frSeen.answered \in {0, 1})
    /\ [](fr.requests - frSeen.answered = 1 => fr.pc \in {"fetch", "threw"})
    /\ [][fr'.requests # fr.requests =>
            /\ fr'.requests = fr.requests + 1
            /\ frSeen'.answered = fr.requests
            /\ fr'.hop = fr.requests
            /\ fr.requests > 0 =>
                  (fr.pc = "fetch" /\ fr'.status \in 300..399 /\ fr'.url = fr'.location)]_vars

\* the third request is out, two responses were received
C27_Witness ==
    /\ fr.pc = "fetch"
    /\ fr.requests = 3
    /\ frSeen.answered = 2
    /\ fr.hop = 2

\* C28: the per-hop timer of an invocation is pending only while the
\* invocation awaits its fetch, so none is pending once it has returned or
\* thrown; the deadline timer of a search request is pending only while the
\* request awaits the race, so none is pending once the request is answered.
C28_TimersReleased ==
    /\ fr.timer => fr.pc = "fetch"
    /\ Settled(fr) => ~fr.timer
    /\ req.timer => req.pc = "waiting"
    /\ req.pc = "responded" => ~req.timer

\* an invocation threw on the abort of its second hop and a search request
\* was answered on its deadline; nothing is pending
C28_Witness ==
    /\ fr.pc = "threw" /\ fr.err = "abort" /\ fr.requests = 2 /\ ~fr.timer
    /\ req.pc = "responded" /\ req.fired /\ ~req.timer

\* the step in which the deadline timer fires changes nothing of the
\* resolution that is running, of the cache or of the in-flight map
DeadlineLeavesOthersAlone ==
    [][(~req.fired /\ req'.fired) => UNCHANGED <<frVars, adVars, extVars, webVars>>]_vars

\* C29: when the deadline timer of a search request fires, the pending
\* search() of that request is cancelled: it is pending no longer and no
\* step of it runs afterwards; nothing else is affected.
C29_DeadlineCancelsSearch ==
    /\ [][(~req.fired /\ req'.fired) => up'.pc \notin {"fetch", "body"}]_vars
    /\ [][req.fired => up' = up]_vars
    /\ DeadlineLeavesOthersAlone

\* C30 (Jackett): when the client of the call that started a resolution goes
\* away, that step changes nothing of the resolutions, the in-flight map and
\* the cache; the resolution settles as any other: when it does, every call
\* that joined it has its outcome, and a returned value is in the cache.
C30_DepartureKeepsResolution ==
    /\ [][\A i \in CallIds :
            (~calls[i].left /\ calls'[i].left) =>
                UNCHANGED <<runs, inFlight, magnetCache>>]_vars
    /\ [](\A j \in Missed :
            calls[calls[j].run].left =>
                /\ calls[j].st = "waiting" =>
                      runs[calls[j].run].fr.pc \in {"fetch", "body"}
                /\ calls[j].st = "done" =>
                      calls[j].res = Outcome(runs[calls[j].run].fr))
    /\ [][\A i \in CallIds :
            (/\ calls[i].left
             /\ ~Settled(runs[i].fr)
             /\ runs'[i].fr.pc = "returned") =>
                magnetCache'[runs[i].url] =
                    [has |-> TRUE, value |-> runs'[i].fr.result, start |-> now]]_vars

\* two callers joined the first, which left; the resolution went through a
\* redirect and a body and gave the magnet to all, and to the cache
C30_Witness ==
    /\ calls[1].left
    /\ \A c \in 2..3 :
          /\ calls[c].run = 1
          /\ calls[c].st = "done"
          /\ calls[c].res \in Magnets
          /\ calls[c].res = runs[1].fr.result
    /\ runs[1].fr.requests = 2
    /\ magnetCache[calls[1].url].value = runs[1].fr.result

(***************************************************************************)
(* Specification of normalizeResult: a title is drawn, normalizeResult is  *)
(* applied to it, and then to a result that has the normTitle as title.    *)
(***************************************************************************)
NormInit ==
    /\ norm \in {[NoTitle EXCEPT !.pc = "given", !.title = t] : t \in AnyTitles(MaxPieces)}
    /\ HookIdle
    /\ ExtIdle
    /\ FrIdle
    /\ AdIdle
    /\ SrIdle

Normalize ==
    /\ norm.pc = "given"
    /\ norm' = [norm EXCEPT !.pc = "normalized", !.normTitle = NormTitle(norm.title)]
    /\ UNCHANGED <<hook, searches, extVars, frVars, adVars, srVars>>

NormalizeAgain ==
    /\ norm.pc = "normalized"
    /\ norm' = [norm EXCEPT !.pc = "again", !.again = NormTitle(norm.normTitle)]
    /\ UNCHANGED <<hook, searches, extVars, frVars, adVars, srVars>>

NormNext == Normalize \/ NormalizeAgain

SpecNormalize == NormInit /\ [][NormNext]_vars

(***************************************************************************)
(* Specification of the hook: the user searches (with a blank or a proper  *)
(* query), aborts and clears at any moment; the server answers every       *)
(* request in any order, with any status, or not at all.                   *)
(***************************************************************************)
HookInit ==
    /\ HookIdle
    /\ NormIdle
    /\ ExtIdle
    /\ FrIdle
    /\ AdIdle
    /\ SrIdle

HookNext ==
    \/ \E i \in SearchIds, blank \in BOOLEAN : HookSearch(i, blank)
    \/ HookAbortSearch
    \/ HookClearResults
    \/ \E i \in SearchIds, ok \in BOOLEAN : HookAnswer(i, ok)
    \/ \E i \in SearchIds : HookFetchError(i)
    \/ \E i \in SearchIds : HookBody(i)
    \/ \E i \in SearchIds : HookBodyError(i)

SpecHook == HookInit /\ [][HookNext]_vars

\* white space nowhere at the ends and nowhere twice in a row
Collapsed(str) ==
    /\ str # <<>> => (~IsSpace(str[1]) /\ ~IsSpace(str[Len(str)]))
    /\ \A k \in 1..(Len(str) - 1) : ~(IsSpace(str[k]) /\ IsSpace(str[k + 1]))

\* C31: the normTitle of every title has no white space at its ends and no
\* two white-space characters in a row, and normalizing it again returns it
\* unchanged.
C31_NormTitleCollapsed ==
    /\ norm.pc \in {"normalized", "again"} => Collapsed(norm.normTitle)
    /\ norm.pc = "again" => norm.again = norm.normTitle


\* C32: when the upstream does not answer the search request and the abort
\* timer of search() fires, the request ends with the timeout status 504,
\* as it does when the overall deadline fires.
C32_UpstreamTimeoutIs504 ==
    (req.pc = "responded" /\ (up.err = "abort" \/ req.fired)) => req.status = 504

\* a cache entry is written for u in this step
CacheWritten(u) == magnetCache'[u].has /\ magnetCache'[u] # magnetCache[u]

\* C33: in the Jackett adapter a url with an in-flight entry has no cache
\* entry, and a cache entry is written for a url only in the step in which
\* the resolution registered for it settles and its in-flight entry is removed.
C33_InFlightExcludesCached ==
    /\ [](\A u \in Keys : inFlight[u] # 0 => ~magnetCache[u].has)
    /\ [][\A u \in Keys :
            CacheWritten(u) =>
                /\ inFlight[u] # 0 /\ inFlight'[u] = 0
                /\ runs[inFlight[u]].url = u
                /\ ~Settled(runs[inFlight[u]].fr) /\ Settled(runs'[inFlight[u]].fr)]_vars

\* a resolution is in flight for a url whose earlier entry has expired,
\* while the other url is cached
C33_Witness ==
    \E u, v \in Keys :
        /\ inFlight[u] # 0 /\ settles[u].log # {}
        /\ inFlight[v] = 0 /\ magnetCache[v].has

\* resolution i ends in this step by an error that no timer caused
FailedDefinitively(i) ==
    /\ ~Settled(runs[i].fr)
    /\ runs'[i].fr.pc = "threw"
    /\ ~runs'[i].timedOut

\* C34 (Jackett): when followRedirectsToMagnet throws an error that is no
\* abort and no timeout (a refused connection, a redirect to a Location that
\* is no fetchable URL), the calls awaiting it get null and null is stored
\* for the url with the full TTL, so that a call within the TTL is served
\* from the cache without a request.
C34_FailureIsDefinitive ==
    [][\A i \in CallIds :
          FailedDefinitively(i) =>
              /\ \A c \in CallIds :
                    (calls[c].st = "waiting" /\ calls[c].run = i) =>
                        (calls'[c].st = "done" /\ calls'[c].res = Null)
              /\ magnetCache'[runs[i].url] = [has |-> TRUE, value |-> Null, start |-> now]
              /\ CacheGet(magnetCache', runs[i].url) = Null]_vars

\* null or a string that begins with magnet:
MagnetOrNull(v) == v = Null \/ IsMagnet(v)

EmptyStringInfos == InfoDicts({BStr(<<>>), BStr(<<"a">>)})

\* C36: for a torrent whose info dictionary holds zero-length strings, such
\* as d6:length0:e, the byte after the colon of 0: is parsed as grammar, so
\* that the walk ends at the e that closes the info dictionary: the span is
\* the whole dictionary.
C36_EmptyStringConsumesNothing ==
    (/\ ext.kind # "pending"
     /\ MarkerIsInfoKey(torrent)
     /\ torrent.info \in EmptyStringInfos) => HashedInfoValue

\* C37: for every buffer, extractMagnetFromTorrent of index.js and
\* extractMagnetFromTorrentBuffer of providers/utils.js both fail or both
\* hash the same span of bytes after the 4:info marker.
C37_ExtractorsAgree ==
    ext.kind # "pending" =>
        LET api == extractMagnetFromTorrent(buf)
        IN  /\ api.kind = ext.kind
            /\ ext.kind = "magnet" =>
                   (api.from = ext.from /\ api.to = ext.to /\ api.hashed = ext.hashed)

\* C38: while the search started last is in flight, loading is true and
\* abortRef holds its controller (so that abortSearch aborts it), also when
\* it was started while an older search was pending.
C38_LatestSearchTracked ==
    \A i \in SearchIds :
        (i = LatestSearch /\ InFlightSearch(i)) =>
            (hook.loading /\ hook.abortRef = i)

\* C39: error and allResults were last written by the search started last
\* (or by no search): a request that was superseded or aborted writes neither.
C39_OnlyLatestSearchWrites ==
    hook.writer \in {0, LatestSearch}

====
